---- MODULE Spec2Model ----
(***************************************************************************)
(* Verification model of the MiniProject-II backend: the password-reset    *)
(* token ledger (UserController.requestPasswordReset / resetPassword, the  *)
(* User and PasswordResetToken models), the rating aggregation             *)
(* (RatingController.createRating / updateFilmAverageRating, the generic   *)
(* rating update and delete routes) and the sessions (UserController.login *)
(* and the middleware authenticate / isOwnAccount).                        *)
(*                                                                         *)
(* Every `await` of a handler is a suspension point: a handler is split    *)
(* into one action per database call, the synchronous code before a call   *)
(* being part of the action of that call.  Each database call may fail     *)
(* (it throws), which is a separate action per call.                       *)
(*                                                                         *)
(* Time is in milliseconds, as Date.now().  Strings that the code inspects *)
(* (passwords, token values) are sequences of one-character strings or of  *)
(* digits.  Ratings are kept in hundredths (3.25 is 325) and the film's    *)
(* stored average in tenths (4.5 is 45), so that all arithmetic is exact;  *)
(* the rate inputs are multiples of 0.25, for which the floating point     *)
(* arithmetic of the code is exact as well.                                *)
(***************************************************************************)
EXTENDS Integers, Sequences, FiniteSets, TLC

(***************************************************************************)
(* Bounds of the model.                                                    *)
(***************************************************************************)
MaxResetRequests == 2
MaxResetTokens == 2
MaxTicks == 1
MaxCreateRequests == 2
MaxLoginRequests == 2
MaxClockSteps == 3

(***************************************************************************)
(* Program constants.                                                      *)
(***************************************************************************)
ResetTokenTTL == 3600000
\* bcrypt uses the first 72 bytes of the password only
BcryptMaxBytes == 72
\* jwt.sign(..., { expiresIn: '10h' }) and the expiresIn of the login response
SessionTTL == 36000

Users == {"u1", "u2"}
Films == {"f1"}
FilmIds == Films \cup {"fx"}

\* rate values of the request bodies, in hundredths
RateInputs == {-25, 0, 375, 500, 600}
UpdateRates == {400, 900}
Salts == {"s1", "s2"}

EmailOf(u) == IF u = "u1" THEN "u1@mail.com" ELSE "u2@mail.com"
EmailInputs == {"", "u1@mail.com", "nobody@mail.com"}
DeliveryOutcomes == {"ok", "createFails", "sendFails"}

(***************************************************************************)
(* Passwords are sequences of characters.                                  *)
(***************************************************************************)
LowerChars == {"a", "b", "c", "d", "e"}
UpperChars == {"A", "B", "C"}
DigitChars == {"1", "2", "3"}
SymbolChars == {"@", "$", "!", "%", "*", "?", "&"}

PwInitial == <<"A", "b", "c", "d", "e", "1", "2", "!">>
PwNew == <<"B", "a", "a", "a", "c", "3", "3", "@">>
PwWeak == <<"a", "b", "c", "1", "2", "3">>
EmptyString == <<>>
NameInitial == <<"A", "n", "n">>
NameNew == <<"B", "o", "b">>
NewPasswordInputs == {PwNew, PwWeak, EmptyString}

\* two compliant passwords that differ in their 73rd character only
PwLongPrefix ==
    [i \in 1..BcryptMaxBytes |->
        IF i = 1 THEN "C" ELSE IF i = 2 THEN "2" ELSE IF i = 3 THEN "?" ELSE "e"]
PwLong == Append(PwLongPrefix, "a")
PwLongTwin == Append(PwLongPrefix, "b")

HasCharIn(v, S) == \E i \in 1..Len(v) : v[i] \in S

\* /^(?=.*[a-z])(?=.*[A-Z])(?=.*\d)(?=.*[@$!%*?&])[A-Za-z\d@$!%*?&]{8,}$/
PASSWORD_REGEX_test(v) ==
    /\ HasCharIn(v, LowerChars)
    /\ HasCharIn(v, UpperChars)
    /\ HasCharIn(v, DigitChars)
    /\ HasCharIn(v, SymbolChars)
    /\ \A i \in 1..Len(v) :
           v[i] \in LowerChars \cup UpperChars \cup DigitChars \cup SymbolChars
    /\ Len(v) >= 8

\* the bytes of the password that bcrypt digests
BcryptInput(plain) ==
    IF Len(plain) > BcryptMaxBytes THEN SubSeq(plain, 1, BcryptMaxBytes) ELSE plain

\* bcrypt.hash(plain, salt): a salted digest, never the plaintext itself
bcrypt_hash(plain, salt) ==
    [salt |-> salt, digest |-> <<salt, BcryptInput(plain)>>]

\* bcrypt.compare(candidate, hash): recompute with the embedded salt
comparePassword(hash, candidate) ==
    bcrypt_hash(candidate, hash.salt).digest = hash.digest

(***************************************************************************)
(* Reset token values: crypto.randomBytes(32).toString('hex').             *)
(***************************************************************************)
TokenValues == {<<i>> : i \in 1..MaxResetTokens}
BogusToken == <<0>>
TokenInputs == TokenValues \cup {BogusToken, EmptyString}

\* the bodies presented to POST /users/reset-password
ResetInputs ==
    ({t \in TokenInputs : t # EmptyString} \X {p \in NewPasswordInputs : p # EmptyString})
        \cup {<<EmptyString, PwNew>>, <<BogusToken, EmptyString>>,
              <<<<1>>, EmptyString>>}

\* HTTP responses of the handlers
MsgResetRequested == "If your email is registered, you will receive instructions to reset your password"
MsgEmailRequired == "Email address is required"
MsgSendFailed == "Failed to send password reset email"
MsgResetRequestError == "An error occurred during password reset request"
MsgTokenAndPasswordRequired == "Token and new password are required"
MsgInvalidToken == "Invalid or expired password reset token"
MsgUserNotFound == "User not found"
MsgResetDone == "Password has been reset successfully"
MsgPasswordRequirements == "Password does not meet requirements"
MsgResetError == "An error occurred during password reset"

Response(s, m) == [status |-> s, message |-> m]
NoResponse == Response(0, "")

VARIABLES
    now,            \* Date.now()
    ticks,          \* number of clock advances so far (bounds the model)
    users,          \* User collection: userId -> document
    resetTokens,    \* PasswordResetToken collection, in insertion order
    forgot,         \* the last requestPasswordReset and its response
    rp,             \* the resetPassword requests
    ratings,        \* Rating collection: a set of documents
    films,          \* Film collection: filmId -> rating (tenths), totalRatings
    cr,             \* the createRating requests
    lg,             \* the login requests
    gate,           \* the request passing through authenticate / isOwnAccount
    up              \* the PUT /users/:id request

resetVars == <<now, ticks, users, resetTokens, forgot, rp>>
ratingVars == <<ratings, films, cr>>
sessionVars == <<lg, gate>>
accountVars == <<up>>
vars == <<now, ticks, users, resetTokens, forgot, rp, ratings, films, cr,
          lg, gate, up>>

ResetRequests == 1..MaxResetRequests

RpIdle ==
    [pc |-> "idle", token |-> EmptyString, newPassword |-> EmptyString,
     doc |-> 0, response |-> NoResponse,
     \* history of the request, for the properties only:
     wrotePassword |-> FALSE,    \* its user.save() took effect
     oldPassword |-> EmptyString,\* the password its user.save() replaced
     current |-> FALSE,          \* it succeeded and no password was saved since
     afterSuccess |-> FALSE,     \* it arrived after a reset with its token succeeded
     sawExpired |-> FALSE,       \* it arrived at or after the expiry of its unused token
     unknownToken |-> FALSE,     \* it arrived with a token no ledger entry carries
     afterWeak |-> FALSE]        \* it arrived after a reset with its token was
                                 \* refused for its password

InitReset ==
    /\ now = 0
    /\ ticks = 0
    /\ users = [u \in Users |->
                   [email |-> EmailOf(u),
                    password |-> bcrypt_hash(PwInitial, "s1"),
                    firstName |-> NameInitial,
                    \* history, for the properties only: the password set
                    plain |-> PwInitial]]
    /\ resetTokens = <<>>
    /\ forgot = [response |-> NoResponse, email |-> "", registered |-> FALSE,
                 delivery |-> "none"]
    /\ rp = [r \in ResetRequests |-> RpIdle]

\* time passes
Tick ==
    /\ ticks < MaxTicks
    /\ now' = now + ResetTokenTTL
    /\ ticks' = ticks + 1
    /\ UNCHANGED <<users, resetTokens, forgot, rp>>
    /\ UNCHANGED <<ratingVars, sessionVars, accountVars>>

\* User.findOne({ email })
UserByEmail(email) ==
    IF \E u \in DOMAIN users : users[u].email = email
    THEN CHOOSE u \in DOMAIN users : users[u].email = email
    ELSE "none"

\* PasswordResetToken.create({ userId, token, expiresAt }), used defaults to false
NewResetToken(userId, token) ==
    [userId |-> userId, token |-> token,
     expiresAt |-> now + ResetTokenTTL, used |-> FALSE]

\* crypto.randomBytes(32).toString('hex'): a value no ledger entry carries yet
FreshToken(token) ==
    /\ token \in TokenValues
    /\ \A i \in 1..Len(resetTokens) : resetTokens[i].token # token
    /\ token = <<Len(resetTokens) + 1>>

\* EmailService.sendPasswordResetEmail: the promise resolves to an EmailResponse
\* object, with success: false when sgMail.send threw; it never rejects
sendPasswordResetEmail(outcome) ==
    [typeof |-> "object", success |-> outcome = "ok"]

\* JavaScript's !v: false for every object, whatever its fields
Not(v) == IF v.typeof = "boolean" THEN ~v.value ELSE FALSE

\* what the last requestPasswordReset was given and what it answered
Forgot(email, delivery, response) ==
    [response |-> response,
     \* history, for the properties only:
     email |-> email,
     registered |-> UserByEmail(email) # "none",
     delivery |-> delivery]      \* "none": no delivery was attempted

\* the handler with a distinct answer for an address that is not registered
requestPasswordReset_revealing(email, token, outcome) ==
    /\ UNCHANGED <<now, ticks, users, rp>>
    /\ UNCHANGED <<ratingVars, sessionVars, accountVars>>
    /\ IF email = ""
       THEN /\ forgot' = Forgot(email, "none", Response(400, MsgEmailRequired))
            /\ UNCHANGED resetTokens
       ELSE IF UserByEmail(email) = "none"
       THEN /\ forgot' = Forgot(email, "none", Response(404, MsgUserNotFound))
            /\ UNCHANGED resetTokens
       ELSE IF outcome = "createFails"
       THEN /\ forgot' = Forgot(email, "none", Response(500, MsgResetRequestError))
            /\ UNCHANGED resetTokens
       ELSE /\ Len(resetTokens) < MaxResetTokens
            /\ FreshToken(token)
            /\ resetTokens' =
                   Append(resetTokens, NewResetToken(UserByEmail(email), token))
            /\ forgot' = IF Not(sendPasswordResetEmail(outcome))
                         THEN Forgot(email, outcome, Response(500, MsgSendFailed))
                         ELSE Forgot(email, outcome, Response(200, MsgResetRequested))

\* the handler taking the ledger entry back when the delivery fails
requestPasswordReset_rollingBack(email, token, outcome) ==
    /\ UNCHANGED <<now, ticks, users, rp>>
    /\ UNCHANGED <<ratingVars, sessionVars, accountVars>>
    /\ IF email = ""
       THEN /\ forgot' = Forgot(email, "none", Response(400, MsgEmailRequired))
            /\ UNCHANGED resetTokens
       ELSE IF UserByEmail(email) = "none"
       THEN /\ forgot' = Forgot(email, "none", Response(200, MsgResetRequested))
            /\ UNCHANGED resetTokens
       ELSE IF outcome = "createFails"
       THEN /\ forgot' = Forgot(email, "none", Response(500, MsgResetRequestError))
            /\ UNCHANGED resetTokens
       ELSE /\ Len(resetTokens) < MaxResetTokens
            /\ FreshToken(token)
            /\ resetTokens' =
                   IF outcome = "sendFails" THEN resetTokens
                   ELSE Append(resetTokens, NewResetToken(UserByEmail(email), token))
            /\ forgot' = IF Not(sendPasswordResetEmail(outcome))
                         THEN Forgot(email, outcome, Response(500, MsgSendFailed))
                         ELSE Forgot(email, outcome, Response(200, MsgResetRequested))

\* POST /users/forgot-password
\* outcome: "ok", "createFails" (the ledger write throws), "sendFails" (SendGrid
\* refuses the message)
requestPasswordReset(email, token, outcome) ==
    /\ UNCHANGED <<now, ticks, users, rp>>
    /\ UNCHANGED <<ratingVars, sessionVars, accountVars>>
    /\ IF email = ""
       THEN /\ forgot' = Forgot(email, "none", Response(400, MsgEmailRequired))
            /\ UNCHANGED resetTokens
       ELSE IF UserByEmail(email) = "none"
       THEN /\ forgot' = Forgot(email, "none", Response(200, MsgResetRequested))
            /\ UNCHANGED resetTokens
       ELSE IF outcome = "createFails"
       THEN /\ forgot' = Forgot(email, "none", Response(500, MsgResetRequestError))
            /\ UNCHANGED resetTokens
       ELSE /\ Len(resetTokens) < MaxResetTokens
            /\ FreshToken(token)
            /\ resetTokens' =
                   Append(resetTokens, NewResetToken(UserByEmail(email), token))
            \* const emailSent = await EmailService.sendPasswordResetEmail(...)
            \* if (!emailSent) ... 500
            /\ forgot' = IF Not(sendPasswordResetEmail(outcome))
                         THEN Forgot(email, outcome, Response(500, MsgSendFailed))
                         ELSE Forgot(email, outcome, Response(200, MsgResetRequested))

\* the lookup without its `used: false` condition
MatchesReset_ignoringUsed(doc, token) ==
    /\ doc.token = token
    /\ doc.expiresAt > now

\* the lookup with $gte in place of $gt
MatchesReset_untilExpiryIncluded(doc, token) ==
    /\ doc.token = token
    /\ doc.used = FALSE
    /\ doc.expiresAt >= now

\* PasswordResetToken.findOne({ token, used: false, expiresAt: { $gt: new Date() } })
MatchesReset(doc, token) ==
    /\ doc.token = token
    /\ doc.used = FALSE
    /\ doc.expiresAt > now

FindResetToken(token) ==
    IF \E i \in 1..Len(resetTokens) : MatchesReset(resetTokens[i], token)
    THEN CHOOSE i \in 1..Len(resetTokens) :
             /\ MatchesReset(resetTokens[i], token)
             /\ \A j \in 1..(i - 1) : ~MatchesReset(resetTokens[j], token)
    ELSE 0

\* the ledger entries carrying a token value, whatever their state
DocsOf(token) == {i \in 1..Len(resetTokens) : resetTokens[i].token = token}

\* the request has answered: only what it presented and what it did is kept
RpDone(req, token, response) ==
    IF response.status = 200
    THEN [req EXCEPT !.pc = "done", !.token = token, !.response = response,
             !.current = TRUE]
    ELSE [req EXCEPT !.pc = "done", !.token = token, !.response = response,
             !.newPassword = EmptyString, !.oldPassword = EmptyString]

\* request r has saved a password for user uid: it records the password it
\* replaced, and the earlier resets of that user are no longer the current one
PasswordSavedBy(r, uid) ==
    [q \in ResetRequests |->
        IF q = r
        THEN [rp[q] EXCEPT !.pc = "saveToken", !.wrotePassword = TRUE,
                 !.oldPassword = users[uid].plain]
        ELSE IF rp[q].doc # 0 /\ resetTokens[rp[q].doc].userId = uid
        THEN [rp[q] EXCEPT !.current = FALSE]
        ELSE rp[q]]

\* a well-formed request arrives after a reset presenting its token has succeeded
ArrivesAfterSuccess(r, token, newPassword) ==
    /\ token # EmptyString /\ newPassword # EmptyString
    /\ \E q \in ResetRequests \ {r} :
           /\ rp[q].pc = "done"
           /\ rp[q].response.status = 200
           /\ rp[q].token = token

\* a well-formed request arrives when its token is unused and has expired
ArrivesExpired(token, newPassword) ==
    /\ token # EmptyString /\ newPassword # EmptyString
    /\ DocsOf(token) # {}
    /\ \A i \in DocsOf(token) :
           ~resetTokens[i].used /\ now >= resetTokens[i].expiresAt

\* a well-formed request arrives with a token value that was never issued
ArrivesUnknown(token, newPassword) ==
    /\ token # EmptyString /\ newPassword # EmptyString
    /\ DocsOf(token) = {}

\* a well-formed request arrives after a reset presenting its token has been
\* refused because of its password
ArrivesAfterWeak(r, token, newPassword) ==
    /\ token # EmptyString /\ newPassword # EmptyString
    /\ \E q \in ResetRequests \ {r} :
           /\ rp[q].pc = "done"
           /\ rp[q].response = Response(400, MsgPasswordRequirements)
           /\ rp[q].token = token

\* the lookup with an answer of its own for a token that was never issued
resetPassword_findToken_revealing(r, token, newPassword) ==
    /\ rp[r].pc = "idle"
    /\ IF r = 1 THEN TRUE ELSE rp[r - 1].pc # "idle"   \* numbered as they arrive
    /\ UNCHANGED <<now, ticks, users, resetTokens, forgot>>
    /\ UNCHANGED <<ratingVars, sessionVars, accountVars>>
    /\ LET req == [rp[r] EXCEPT
                      !.afterSuccess = ArrivesAfterSuccess(r, token, newPassword),
                      !.sawExpired = ArrivesExpired(token, newPassword),
                      !.unknownToken = ArrivesUnknown(token, newPassword),
                      !.afterWeak = ArrivesAfterWeak(r, token, newPassword)]
       IN  IF token = EmptyString \/ newPassword = EmptyString
           THEN rp' = [rp EXCEPT ![r] =
                    RpDone(req, token, Response(400, MsgTokenAndPasswordRequired))]
           ELSE IF DocsOf(token) = {}
           THEN rp' = [rp EXCEPT ![r] =
                    RpDone(req, token, Response(404, MsgInvalidToken))]
           ELSE IF FindResetToken(token) = 0
           THEN rp' = [rp EXCEPT ![r] =
                    RpDone(req, token, Response(400, MsgInvalidToken))]
           ELSE rp' = [rp EXCEPT ![r] =
                    [req EXCEPT !.pc = "findUser", !.token = token,
                        !.newPassword = newPassword,
                        !.doc = FindResetToken(token)]]

\* POST /users/reset-password: input validation and the token lookup
resetPassword_findToken(r, token, newPassword) ==
    /\ rp[r].pc = "idle"
    /\ IF r = 1 THEN TRUE ELSE rp[r - 1].pc # "idle"   \* numbered as they arrive
    /\ UNCHANGED <<now, ticks, users, resetTokens, forgot>>
    /\ UNCHANGED <<ratingVars, sessionVars, accountVars>>
    /\ LET req == [rp[r] EXCEPT
                      !.afterSuccess = ArrivesAfterSuccess(r, token, newPassword),
                      !.sawExpired = ArrivesExpired(token, newPassword),
                      !.unknownToken = ArrivesUnknown(token, newPassword),
                      !.afterWeak = ArrivesAfterWeak(r, token, newPassword)]
       IN  IF token = EmptyString \/ newPassword = EmptyString
           THEN rp' = [rp EXCEPT ![r] =
                    RpDone(req, token, Response(400, MsgTokenAndPasswordRequired))]
           ELSE IF FindResetToken(token) = 0
           THEN rp' = [rp EXCEPT ![r] =
                    RpDone(req, token, Response(400, MsgInvalidToken))]
           ELSE rp' = [rp EXCEPT ![r] =
                    [req EXCEPT !.pc = "findUser", !.token = token,
                        !.newPassword = newPassword,
                        !.doc = FindResetToken(token)]]

\* const user = await User.findById(resetToken.userId)
resetPassword_findUser(r) ==
    /\ rp[r].pc = "findUser"
    /\ UNCHANGED <<now, ticks, users, resetTokens, forgot>>
    /\ UNCHANGED <<ratingVars, sessionVars, accountVars>>
    /\ IF resetTokens[rp[r].doc].userId \in DOMAIN users
       THEN rp' = [rp EXCEPT ![r].pc = "saveUser"]
       ELSE rp' = [rp EXCEPT ![r] =
                RpDone(rp[r], rp[r].token, Response(404, MsgUserNotFound))]

\* user.save() with its rejection ignored: the handler goes on to mark the token
resetPassword_saveUser_ignoringFailure(r, salt) ==
    /\ rp[r].pc = "saveUser"
    /\ UNCHANGED <<now, ticks, resetTokens, forgot>>
    /\ UNCHANGED <<ratingVars, sessionVars, accountVars>>
    /\ IF PASSWORD_REGEX_test(rp[r].newPassword)
       THEN /\ users' = [users EXCEPT
                   ![resetTokens[rp[r].doc].userId].password =
                       bcrypt_hash(rp[r].newPassword, salt),
                   ![resetTokens[rp[r].doc].userId].plain = rp[r].newPassword]
            /\ rp' = PasswordSavedBy(r, resetTokens[rp[r].doc].userId)
       ELSE /\ UNCHANGED users
            /\ rp' = [rp EXCEPT ![r].pc = "saveToken"]

\* user.save() with the token spent also when the password is refused
resetPassword_saveUser_burningToken(r, salt) ==
    /\ rp[r].pc = "saveUser"
    /\ UNCHANGED <<now, ticks, forgot>>
    /\ UNCHANGED <<ratingVars, sessionVars, accountVars>>
    /\ IF PASSWORD_REGEX_test(rp[r].newPassword)
       THEN /\ UNCHANGED resetTokens
            /\ users' = [users EXCEPT
                   ![resetTokens[rp[r].doc].userId].password =
                       bcrypt_hash(rp[r].newPassword, salt),
                   ![resetTokens[rp[r].doc].userId].plain = rp[r].newPassword]
            /\ rp' = PasswordSavedBy(r, resetTokens[rp[r].doc].userId)
       ELSE /\ UNCHANGED users
            /\ resetTokens' = [resetTokens EXCEPT ![rp[r].doc].used = TRUE]
            /\ rp' = [rp EXCEPT ![r] =
                   RpDone(rp[r], rp[r].token, Response(400, MsgPasswordRequirements))]

\* user.password = newPassword; await user.save()
\* (schema validation, then the pre-save hook hashes with a fresh salt)
resetPassword_saveUser(r, salt) ==
    /\ rp[r].pc = "saveUser"
    /\ UNCHANGED <<now, ticks, resetTokens, forgot>>
    /\ UNCHANGED <<ratingVars, sessionVars, accountVars>>
    /\ IF resetTokens[rp[r].doc].userId \notin DOMAIN users
       \* the document was deleted since findById: save() rejects, answer 500
       THEN /\ UNCHANGED users
            /\ rp' = [rp EXCEPT ![r] =
                   RpDone(rp[r], rp[r].token, Response(500, MsgResetError))]
       ELSE IF PASSWORD_REGEX_test(rp[r].newPassword)
       THEN /\ users' = [users EXCEPT
                   ![resetTokens[rp[r].doc].userId].password =
                       bcrypt_hash(rp[r].newPassword, salt),
                   ![resetTokens[rp[r].doc].userId].plain = rp[r].newPassword]
            /\ rp' = PasswordSavedBy(r, resetTokens[rp[r].doc].userId)
       ELSE /\ UNCHANGED users
            /\ rp' = [rp EXCEPT ![r] =
                   RpDone(rp[r], rp[r].token, Response(400, MsgPasswordRequirements))]

\* the marking of the token extended to every token of its owner
resetPassword_saveToken_revokingAll(r) ==
    /\ rp[r].pc = "saveToken"
    /\ UNCHANGED <<now, ticks, users, forgot>>
    /\ UNCHANGED <<ratingVars, sessionVars, accountVars>>
    /\ resetTokens' =
           [i \in 1..Len(resetTokens) |->
               IF resetTokens[i].userId = resetTokens[rp[r].doc].userId
               THEN [resetTokens[i] EXCEPT !.used = TRUE]
               ELSE resetTokens[i]]
    /\ rp' = [rp EXCEPT ![r] =
           RpDone(rp[r], rp[r].token, Response(200, MsgResetDone))]

\* resetToken.used = true; await resetToken.save(); res.status(200)
resetPassword_saveToken(r) ==
    /\ rp[r].pc = "saveToken"
    /\ UNCHANGED <<now, ticks, users, forgot>>
    /\ UNCHANGED <<ratingVars, sessionVars, accountVars>>
    /\ resetTokens' = [resetTokens EXCEPT ![rp[r].doc].used = TRUE]
    /\ rp' = [rp EXCEPT ![r] =
           RpDone(rp[r], rp[r].token, Response(200, MsgResetDone))]

\* a database call of resetPassword throws: the catch block answers 500
resetPassword_dbError(r) ==
    /\ rp[r].pc \in {"findUser", "saveUser", "saveToken"}
    /\ UNCHANGED <<now, ticks, users, resetTokens, forgot>>
    /\ UNCHANGED <<ratingVars, sessionVars, accountVars>>
    /\ rp' = [rp EXCEPT ![r] =
           RpDone(rp[r], rp[r].token, Response(500, MsgResetError))]

NextReset ==
    \/ Tick
    \/ \E t \in TokenValues : requestPasswordReset("u1@mail.com", t, "ok")
    \/ \E r \in ResetRequests, b \in ResetInputs :
           resetPassword_findToken(r, b[1], b[2])
    \/ \E r \in ResetRequests : resetPassword_findUser(r)
    \/ \E r \in ResetRequests, s \in Salts : resetPassword_saveUser(r, s)
    \/ \E r \in ResetRequests : resetPassword_saveToken(r)
    \/ \E r \in ResetRequests : resetPassword_dbError(r)


(***************************************************************************)
(* Ratings.                                                                *)
(***************************************************************************)
MsgRateRange == "Rating must be a number between 0 and 5"
MsgFilmNotFound == "Film not found"
MsgAlreadyRated == "You have already rated this film. Use PUT to update your rating."
MsgRatingCreated == "Rating created successfully"
MsgCreateError == "An error occurred while creating the rating"

CreateRequests == 1..MaxCreateRequests

CrIdle ==
    [pc |-> "idle", user |-> "", film |-> "", rate |-> 0,
     scanRating |-> 0, scanTotal |-> 0, response |-> NoResponse,
     recomputeFailed |-> FALSE, alone |-> FALSE,
     \* history, for the properties only: the aggregate its film write replaced
     prior |-> [rating |-> 0, totalRatings |-> 0],
     \* history: the token that passed authenticate for it, and Date.now() then
     bearer |-> [token |-> <<>>, at |-> 0]]

InitRating ==
    /\ ratings = {}
    /\ films = [f \in Films |-> [rating |-> 0, totalRatings |-> 0]]
    /\ cr = [r \in CreateRequests |-> CrIdle]

\* Rating.find({ film: filmId })
RatingsOfFilm(f) == {d \in ratings : d.film = f}

RECURSIVE SumRates(_)
\* ratings.reduce((sum, rating) => sum + rating.rate, 0)
SumRates(S) ==
    IF S = {} THEN 0
    ELSE LET d == CHOOSE x \in S : TRUE IN d.rate + SumRates(S \ {d})

\* truncation in place of Math.round
MathRound10_truncating(sum, total) == sum \div (10 * total)

\* Math.round((sum / totalRatings) * 10), with the sum in hundredths:
\* Math.round(x) is floor(x + 0.5)
MathRound10(sum, total) == (2 * sum + 10 * total) \div (20 * total)

\* the rating written by updateFilmAverageRating, in tenths
AverageOf(S) ==
    IF Cardinality(S) > 0 THEN MathRound10(SumRates(S), Cardinality(S)) ELSE 0

InFlight(r) == cr[r].pc \notin {"idle", "done"}

\* the requests in flight on a film lose their "alone" mark
Disturb(c, f, except) ==
    [r \in CreateRequests |->
        IF r # except /\ c[r].pc \notin {"idle", "done"} /\ c[r].film = f
        THEN [c[r] EXCEPT !.alone = FALSE]
        ELSE c[r]]

\* the request has answered: only what it was about and what it did is kept
CrDone(req, response) ==
    IF response.status = 201
    THEN [req EXCEPT !.pc = "done", !.response = response,
             !.user = "", !.rate = 0, !.scanRating = 0, !.scanTotal = 0,
             !.prior = CrIdle.prior]
    ELSE [CrIdle EXCEPT !.pc = "done", !.response = response,
             !.film = req.film, !.bearer = req.bearer,
             !.rate = IF response.message \in {MsgRateRange, MsgFilmNotFound}
                      THEN req.rate ELSE 0]

Answered(r, req, response) ==
    cr' = [cr EXCEPT ![r] = CrDone(req, response)]

\* if (!rate || rate < 0 || rate > 5): 0 is falsy
RateRejected(rate) == rate = 0 \/ rate < 0 \/ rate > 500

\* the requests once request r has entered createRating with req.user.userId,
\* req.params.filmId and req.body.rate: validation of rate, Film.findById
CreateRatingEntered(r, user, film, rate) ==
    LET req == [cr[r] EXCEPT !.user = user, !.film = film, !.rate = rate]
    IN  IF RateRejected(rate)
        THEN [cr EXCEPT ![r] = CrDone(req, Response(400, MsgRateRange))]
        ELSE IF film \notin DOMAIN films
        THEN [cr EXCEPT ![r] = CrDone(req, Response(404, MsgFilmNotFound))]
        ELSE [Disturb(cr, film, r) EXCEPT ![r] =
                 [req EXCEPT !.pc = "findExisting",
                     !.alone = \A q \in CreateRequests :
                                  InFlight(q) => cr[q].film # film]]

\* the handler without its check that the film exists
createRating_findFilm_unchecked(r, user, film, rate) ==
    /\ cr[r].pc = "idle"
    /\ IF r = 1 THEN TRUE ELSE cr[r - 1].pc # "idle"
    /\ UNCHANGED <<resetVars, sessionVars, accountVars>>
    /\ UNCHANGED <<ratings, films>>
    /\ LET req == [cr[r] EXCEPT !.user = user, !.film = film, !.rate = rate]
       IN  IF RateRejected(rate)
           THEN Answered(r, req, Response(400, MsgRateRange))
           ELSE cr' = [Disturb(cr, film, r) EXCEPT ![r] =
                       [req EXCEPT !.pc = "findExisting",
                           !.alone = \A q \in CreateRequests :
                                        InFlight(q) => cr[q].film # film]]

\* POST /ratings/rate/:filmId: validation of rate, then Film.findById(filmId)
createRating_findFilm(r, user, film, rate) ==
    /\ cr[r].pc = "idle"
    /\ IF r = 1 THEN TRUE ELSE cr[r - 1].pc # "idle"   \* numbered as they arrive
    /\ UNCHANGED <<resetVars, sessionVars, accountVars>>
    /\ UNCHANGED <<ratings, films>>
    /\ cr' = CreateRatingEntered(r, user, film, rate)

\* the handler without its check for an existing rating
createRating_findExisting_unchecked(r) ==
    /\ cr[r].pc = "findExisting"
    /\ UNCHANGED <<resetVars, sessionVars, accountVars>>
    /\ UNCHANGED <<ratings, films>>
    /\ cr' = [cr EXCEPT ![r].pc = "save"]

\* Rating.findOne({ user: userId, film: filmId })
createRating_findExisting(r) ==
    /\ cr[r].pc = "findExisting"
    /\ UNCHANGED <<resetVars, sessionVars, accountVars>>
    /\ UNCHANGED <<ratings, films>>
    /\ IF \E d \in ratings : d.user = cr[r].user /\ d.film = cr[r].film
       THEN Answered(r, cr[r], Response(400, MsgAlreadyRated))
       ELSE cr' = [cr EXCEPT ![r].pc = "save"]

\* await newRating.save()
createRating_save(r) ==
    /\ cr[r].pc = "save"
    /\ UNCHANGED <<resetVars, sessionVars, accountVars>>
    /\ ratings' = ratings \cup
           {[id |-> r, user |-> cr[r].user, film |-> cr[r].film,
             rate |-> cr[r].rate]}
    /\ cr' = [cr EXCEPT ![r].pc = "scan"]
    /\ UNCHANGED films

\* the scan missing the rating the request has just saved
updateFilmAverageRating_find_beforeOwn(r) ==
    /\ cr[r].pc = "scan"
    /\ UNCHANGED <<resetVars, sessionVars, accountVars>>
    /\ cr' = [cr EXCEPT ![r].pc = "writeFilm",
                  ![r].scanTotal = Cardinality({d \in RatingsOfFilm(cr[r].film) : d.id # r}),
                  ![r].scanRating = AverageOf({d \in RatingsOfFilm(cr[r].film) : d.id # r})]
    /\ UNCHANGED <<ratings, films>>

\* updateFilmAverageRating: const ratings = await Rating.find({ film: filmId })
updateFilmAverageRating_find(r) ==
    /\ cr[r].pc = "scan"
    /\ UNCHANGED <<resetVars, sessionVars, accountVars>>
    /\ cr' = [cr EXCEPT ![r].pc = "writeFilm",
                  ![r].scanTotal = Cardinality(RatingsOfFilm(cr[r].film)),
                  ![r].scanRating = AverageOf(RatingsOfFilm(cr[r].film))]
    /\ UNCHANGED <<ratings, films>>

\* the film write as a running update of the stored aggregate: the count
\* is the stored count plus one
updateFilmAverageRating_update_incremental(r) ==
    /\ cr[r].pc = "writeFilm"
    /\ UNCHANGED <<resetVars, sessionVars, accountVars>>
    /\ films' = IF cr[r].film \in DOMAIN films
                THEN [films EXCEPT ![cr[r].film] =
                         [rating |-> cr[r].scanRating,
                          totalRatings |-> films[cr[r].film].totalRatings + 1]]
                ELSE films
    /\ cr' = [cr EXCEPT ![r].pc = "readFilm",
                  ![r].prior = IF cr[r].film \in DOMAIN films
                               THEN films[cr[r].film] ELSE @]
    /\ UNCHANGED ratings

\* updateFilmAverageRating: await Film.findByIdAndUpdate(filmId, { rating, totalRatings })
updateFilmAverageRating_update(r) ==
    /\ cr[r].pc = "writeFilm"
    /\ UNCHANGED <<resetVars, sessionVars, accountVars>>
    /\ films' = IF cr[r].film \in DOMAIN films
                THEN [films EXCEPT ![cr[r].film] =
                         [rating |-> cr[r].scanRating,
                          totalRatings |-> cr[r].scanTotal]]
                ELSE films
    /\ cr' = [cr EXCEPT ![r].pc = "readFilm",
                  ![r].prior = IF cr[r].film \in DOMAIN films
                               THEN films[cr[r].film] ELSE @]
    /\ UNCHANGED ratings

\* a failed recomputation that takes the new rating back
updateFilmAverageRating_error_rollingBack(r) ==
    /\ cr[r].pc \in {"scan", "writeFilm"}
    /\ UNCHANGED <<resetVars, sessionVars, accountVars>>
    /\ cr' = [cr EXCEPT ![r].pc = "readFilm", ![r].recomputeFailed = TRUE]
    /\ ratings' = {d \in ratings : d.id # r}
    /\ UNCHANGED films

\* updateFilmAverageRating: a database call throws; the error is logged only
updateFilmAverageRating_error(r) ==
    /\ cr[r].pc \in {"scan", "writeFilm"}
    /\ UNCHANGED <<resetVars, sessionVars, accountVars>>
    /\ cr' = [cr EXCEPT ![r].pc = "readFilm", ![r].recomputeFailed = TRUE]
    /\ UNCHANGED <<ratings, films>>

\* const updatedFilm = await Film.findById(filmId, ...); res.status(201)
createRating_respond(r) ==
    /\ cr[r].pc = "readFilm"
    /\ UNCHANGED <<resetVars, sessionVars, accountVars>>
    /\ UNCHANGED <<ratings, films>>
    /\ Answered(r, cr[r], Response(201, MsgRatingCreated))

\* a database call of createRating throws: the catch block answers 500
createRating_dbError(r) ==
    /\ cr[r].pc \in {"findExisting", "save", "readFilm"}
    /\ UNCHANGED <<resetVars, sessionVars, accountVars>>
    /\ UNCHANGED <<ratings, films>>
    /\ Answered(r, cr[r], Response(500, MsgCreateError))

\* GlobalDAO.update: Rating.findByIdAndUpdate(id, updateData,
\*     { new: true, runValidators: true }); the Rating schema has no range
GlobalDAO_update(id, rate) ==
    /\ \E d \in ratings : d.id = id
    /\ ratings' = {IF d.id = id THEN [d EXCEPT !.rate = rate] ELSE d :
                      d \in ratings}

\* GlobalDAO.delete: Rating.findByIdAndDelete(id)
GlobalDAO_delete(id) ==
    /\ \E d \in ratings : d.id = id
    /\ ratings' = {d \in ratings : d.id # id}

FilmOfRating(id) == (CHOOSE d \in ratings : d.id = id).film

\* PUT /ratings/:id: RatingController.update, inherited from GlobalController
RatingController_update(id, rate) ==
    /\ UNCHANGED <<resetVars, sessionVars, accountVars>>
    /\ GlobalDAO_update(id, rate)
    /\ cr' = Disturb(cr, FilmOfRating(id), 0)
    /\ UNCHANGED films

\* DELETE /ratings/:id: RatingController.delete, inherited from GlobalController
RatingController_delete(id) ==
    /\ UNCHANGED <<resetVars, sessionVars, accountVars>>
    /\ GlobalDAO_delete(id)
    /\ cr' = Disturb(cr, FilmOfRating(id), 0)
    /\ UNCHANGED films

NextRating ==
    \/ \E r \in CreateRequests, u \in Users, f \in FilmIds, v \in RateInputs :
           createRating_findFilm(r, u, f, v)
    \/ \E r \in CreateRequests : createRating_findExisting(r)
    \/ \E r \in CreateRequests : createRating_save(r)
    \/ \E r \in CreateRequests : updateFilmAverageRating_find(r)
    \/ \E r \in CreateRequests : updateFilmAverageRating_update(r)
    \/ \E r \in CreateRequests : updateFilmAverageRating_error(r)
    \/ \E r \in CreateRequests : createRating_respond(r)
    \/ \E r \in CreateRequests : createRating_dbError(r)
    \/ \E id \in CreateRequests, v \in UpdateRates :
           RatingController_update(id, v)
    \/ \E id \in CreateRequests : RatingController_delete(id)

(***************************************************************************)
(* Sessions: UserController.login issues a JSON Web Token, the middleware  *)
(* authenticate validates it and isOwnAccount compares the identity with   *)
(* the :id of the route.                                                   *)
(*                                                                         *)
(* A token is the sequence <<algorithm, payload, signature>>; the times of *)
(* its payload are NumericDates, in whole seconds.  The authorization      *)
(* header is the sequence of its parts between single spaces: "Bearer x"   *)
(* is <<"Bearer", x>>, a missing header is <<>>.                           *)
(***************************************************************************)
JWT_SECRET == "k1"
WrongSecret == "k2"

\* Math.floor(Date.now() / 1000)
NumericDate(ms) == ms \div 1000

\* the HMAC of the payload under a key
HS256(payload, secret) == <<secret, payload>>

\* a token that does not carry the email
jwt_sign_withoutEmail(userId, email, secret) ==
    LET payload == [userId |-> userId, email |-> "",
                    iat |-> NumericDate(now),
                    exp |-> NumericDate(now) + SessionTTL]
    IN  <<"HS256", payload, HS256(payload, secret)>>

\* jwt.sign({ userId, email }, secret, { expiresIn: '10h' })
jwt_sign(userId, email, secret) ==
    LET payload == [userId |-> userId, email |-> email,
                    iat |-> NumericDate(now),
                    exp |-> NumericDate(now) + SessionTTL]
    IN  <<"HS256", payload, HS256(payload, secret)>>

MalformedToken == <<"garbage">>

\* verification that does not look at the signature
jwt_verify_unsigned(token, secret) ==
    /\ Len(token) = 3
    /\ NumericDate(now) < token[2].exp

\* verification that still accepts the token in the second of its expiry
jwt_verify_untilExpiryIncluded(token, secret) ==
    /\ Len(token) = 3
    /\ token[3] = HS256(token[2], secret)
    /\ NumericDate(now) <= token[2].exp

\* jwt.verify(token, secret) returns the payload; FALSE here is a throw
jwt_verify(token, secret) ==
    /\ Len(token) = 3
    /\ token[3] = HS256(token[2], secret)
    /\ NumericDate(now) < token[2].exp

MsgLoginRequired == "Email and password are required"
MsgInvalidCredentials == "Invalid email or password"
MsgAuthConfigMissing == "Internal server error. Authentication configuration missing."
MsgLoginOk == "Authentication successful"
MsgLoginError == "An error occurred during authentication"

\* the user of the response body is reduced to its id and email
LoginResponse(s, m, user, token, expiresIn) ==
    [status |-> s, message |-> m, user |-> user, token |-> token,
     expiresIn |-> expiresIn]
NoLoginUser == [id |-> "", email |-> ""]
LoginFailure(s, m) == LoginResponse(s, m, NoLoginUser, EmptyString, 0)
NoLoginResponse == LoginFailure(0, "")

NoHash == [salt |-> "", digest |-> <<>>]

LoginRequests == 1..MaxLoginRequests

LgIdle ==
    [pc |-> "idle", password |-> EmptyString,
     user |-> "none", email |-> "", hash |-> NoHash,
     response |-> NoLoginResponse,
     \* history of the request, for the properties only:
     known |-> FALSE,        \* its email belonged to a registered user
     right |-> FALSE,        \* its password was the one set for that user
     failed |-> FALSE,       \* a database call of it threw
     presentsNew |-> FALSE,  \* it presented the new password of the current reset
     presentsOld |-> FALSE,  \* it presented the password the current reset replaced
     issuedAt |-> 0]         \* Date.now() when its token was signed

NoIdentity == [userId |-> "", email |-> ""]

GateIdle ==
    [pc |-> "idle", header |-> <<>>, target |-> "", user |-> NoIdentity,
     status |-> 0, message |-> "",
     \* history of the request, for the properties only:
     at |-> 0,               \* Date.now() when authenticate ran
     key |-> "",             \* process.env.JWT_SECRET when authenticate ran
     subjectChanged |-> FALSE,   \* the subject of its token was deleted or had
                                 \* its password changed when authenticate ran
     sent |-> [authenticate |-> 0, isOwnAccount |-> 0],  \* responses sent by
     next |-> [authenticate |-> 0, isOwnAccount |-> 0]]  \* next() calls of

InitSession ==
    /\ lg = [l \in LoginRequests |-> LgIdle]
    /\ gate = GateIdle

\* the request has answered: only its answer and its history are kept
LgDone(req, response) ==
    [req EXCEPT !.pc = "done", !.response = response,
        !.password = EmptyString, !.user = "none", !.email = "",
        !.hash = NoHash]

\* the successful resets of user u that no later password write has superseded
CurrentResets(u) ==
    {r \in ResetRequests :
        /\ rp[r].pc = "done" /\ rp[r].response.status = 200
        /\ rp[r].current
        /\ resetTokens[rp[r].doc].userId = u}

\* the lookup with an answer of its own for an unknown email
login_findUser_revealing(l, email, password) ==
    /\ lg[l].pc = "idle"
    /\ IF l = 1 THEN TRUE ELSE lg[l - 1].pc # "idle"
    /\ UNCHANGED <<resetVars, ratingVars, gate, accountVars>>
    /\ LET u == UserByEmail(email)
           req == [lg[l] EXCEPT
                      !.known = (u # "none"),
                      !.right = IF u = "none" THEN FALSE
                                ELSE users[u].plain = password,
                      !.presentsNew =
                          \E r \in CurrentResets(u) :
                              rp[r].newPassword = password,
                      !.presentsOld =
                          \E r \in CurrentResets(u) :
                              /\ rp[r].oldPassword = password
                              /\ rp[r].newPassword # password]
       IN  IF email = "" \/ password = EmptyString
           THEN lg' = [lg EXCEPT ![l] =
                    LgDone(req, LoginFailure(400, MsgLoginRequired))]
           ELSE IF u = "none"
           THEN lg' = [lg EXCEPT ![l] =
                    LgDone(req, LoginFailure(404, MsgUserNotFound))]
           ELSE lg' = [lg EXCEPT ![l] =
                    [req EXCEPT !.pc = "compare", !.password = password,
                        !.user = u, !.email = users[u].email,
                        !.hash = users[u].password]]

\* POST /users/login: input validation and User.findOne({ email })
login_findUser(l, email, password) ==
    /\ lg[l].pc = "idle"
    /\ IF l = 1 THEN TRUE ELSE lg[l - 1].pc # "idle"   \* numbered as they arrive
    /\ UNCHANGED <<resetVars, ratingVars, gate, accountVars>>
    /\ LET u == UserByEmail(email)
           req == [lg[l] EXCEPT
                      !.known = (u # "none"),
                      !.right = IF u = "none" THEN FALSE
                                ELSE users[u].plain = password,
                      !.presentsNew =
                          \E r \in CurrentResets(u) :
                              rp[r].newPassword = password,
                      !.presentsOld =
                          \E r \in CurrentResets(u) :
                              /\ rp[r].oldPassword = password
                              /\ rp[r].newPassword # password]
       IN  IF email = "" \/ password = EmptyString
           THEN lg' = [lg EXCEPT ![l] =
                    LgDone(req, LoginFailure(400, MsgLoginRequired))]
           ELSE IF u = "none"
           THEN lg' = [lg EXCEPT ![l] =
                    LgDone(req, LoginFailure(401, MsgInvalidCredentials))]
           ELSE lg' = [lg EXCEPT ![l] =
                    [req EXCEPT !.pc = "compare", !.password = password,
                        !.user = u, !.email = users[u].email,
                        !.hash = users[u].password]]

\* await user.comparePassword(password); jwt.sign; res.status(200)
login_compare(l) ==
    /\ lg[l].pc = "compare"
    /\ UNCHANGED <<resetVars, ratingVars, gate, accountVars>>
    /\ IF ~comparePassword(lg[l].hash, lg[l].password)
       THEN lg' = [lg EXCEPT ![l] =
                LgDone(lg[l], LoginFailure(401, MsgInvalidCredentials))]
       ELSE IF JWT_SECRET = ""
       THEN lg' = [lg EXCEPT ![l] =
                LgDone(lg[l], LoginFailure(500, MsgAuthConfigMissing))]
       ELSE lg' = [lg EXCEPT ![l] =
                LgDone([lg[l] EXCEPT !.issuedAt = now],
                       LoginResponse(200, MsgLoginOk,
                           [id |-> lg[l].user, email |-> lg[l].email],
                           jwt_sign(lg[l].user, lg[l].email, JWT_SECRET),
                           SessionTTL))]

\* a database call of login throws: the catch block answers 500
login_dbError(l) ==
    /\ lg[l].pc = "compare"
    /\ UNCHANGED <<resetVars, ratingVars, gate, accountVars>>
    /\ lg' = [lg EXCEPT ![l] =
           LgDone([lg[l] EXCEPT !.failed = TRUE],
                  LoginFailure(500, MsgLoginError))]

MsgNoToken == "Authentication required. No token provided."
MsgTokenFormat == "Authentication required. Invalid token format."
MsgAuthFailed == "Authentication failed. Invalid or expired token."
MsgAuthRequired == "Authentication required."
MsgForbidden == "Access forbidden. You can only modify your own account information."

\* the middleware mw answers instead of calling next()
GateRejected(req, mw, s, m) ==
    [req EXCEPT !.pc = "rejected", !.status = s, !.message = m,
        !.sent[mw] = @ + 1]

\* the middleware mw calls next()
GatePassed(req, mw, pc) ==
    [req EXCEPT !.pc = pc, !.next[mw] = @ + 1]

\* authHeader.startsWith('Bearer ')
StartsWithBearer(header) == Len(header) >= 2 /\ header[1] = "Bearer"

\* the subject of a token has no user document any more, or its password is
\* no longer the one the account started with
SubjectChanged(token) ==
    /\ Len(token) = 3
    /\ \/ token[2].userId \notin DOMAIN users
       \/ users[token[2].userId].password # bcrypt_hash(PwInitial, "s1")

\* the request as it reaches authenticate
GateArrived(header, target, jwtSecret) ==
    [GateIdle EXCEPT !.header = header, !.target = target, !.at = now,
        !.key = jwtSecret,
        !.subjectChanged = IF Len(header) >= 2 THEN SubjectChanged(header[2])
                           ELSE FALSE]

\* authenticate with the 401 for an empty token not followed by a return:
\* the handler goes on to verify the token
authenticate_fallingThrough(header, target, jwtSecret) ==
    /\ gate.pc \in {"idle", "rejected", "handled"}
    /\ UNCHANGED <<resetVars, ratingVars, lg, accountVars>>
    /\ LET req == GateArrived(header, target, jwtSecret)
       IN  IF header = <<>> \/ ~StartsWithBearer(header)
           THEN gate' = GateRejected(req, "authenticate", 401, MsgNoToken)
           ELSE IF header[2] = EmptyString /\ jwtSecret = ""
           THEN gate' = GateRejected(
                    GateRejected(req, "authenticate", 401, MsgTokenFormat),
                    "authenticate", 500, MsgAuthConfigMissing)
           ELSE IF header[2] = EmptyString
           THEN gate' = GateRejected(
                    GateRejected(req, "authenticate", 401, MsgTokenFormat),
                    "authenticate", 401, MsgAuthFailed)
           ELSE IF jwtSecret = ""
           THEN gate' = GateRejected(req, "authenticate", 500, MsgAuthConfigMissing)
           ELSE IF jwt_verify(header[2], jwtSecret)
           THEN gate' = GatePassed(
                    [req EXCEPT !.user = [userId |-> header[2][2].userId,
                                          email |-> header[2][2].email]],
                    "authenticate", "authenticated")
           ELSE gate' = GateRejected(req, "authenticate", 401, MsgAuthFailed)

\* authenticate with the signing key looked at before the header
authenticate_keyFirst(header, target, jwtSecret) ==
    /\ gate.pc \in {"idle", "rejected", "handled"}
    /\ UNCHANGED <<resetVars, ratingVars, lg, accountVars>>
    /\ LET req == GateArrived(header, target, jwtSecret)
       IN  IF jwtSecret = ""
           THEN gate' = GateRejected(req, "authenticate", 500, MsgAuthConfigMissing)
           ELSE IF header = <<>> \/ ~StartsWithBearer(header)
           THEN gate' = GateRejected(req, "authenticate", 401, MsgNoToken)
           ELSE IF header[2] = EmptyString
           THEN gate' = GateRejected(req, "authenticate", 401, MsgTokenFormat)
           ELSE IF jwt_verify(header[2], jwtSecret)
           THEN gate' = GatePassed(
                    [req EXCEPT !.user = [userId |-> header[2][2].userId,
                                          email |-> header[2][2].email]],
                    "authenticate", "authenticated")
           ELSE gate' = GateRejected(req, "authenticate", 401, MsgAuthFailed)

\* authenticate that also looks the subject of the token up
authenticate_checkingUser(header, target, jwtSecret) ==
    /\ gate.pc \in {"idle", "rejected", "handled"}
    /\ UNCHANGED <<resetVars, ratingVars, lg, accountVars>>
    /\ LET req == GateArrived(header, target, jwtSecret)
       IN  IF header = <<>> \/ ~StartsWithBearer(header)
           THEN gate' = GateRejected(req, "authenticate", 401, MsgNoToken)
           ELSE IF header[2] = EmptyString
           THEN gate' = GateRejected(req, "authenticate", 401, MsgTokenFormat)
           ELSE IF jwtSecret = ""
           THEN gate' = GateRejected(req, "authenticate", 500, MsgAuthConfigMissing)
           ELSE IF jwt_verify(header[2], jwtSecret) /\ ~SubjectChanged(header[2])
           THEN gate' = GatePassed(
                    [req EXCEPT !.user = [userId |-> header[2][2].userId,
                                          email |-> header[2][2].email]],
                    "authenticate", "authenticated")
           ELSE gate' = GateRejected(req, "authenticate", 401, MsgAuthFailed)

\* authenticate, for a request carrying the authorization header, in a
\* process whose process.env.JWT_SECRET is jwtSecret ("" when it is not set)
authenticate_env(header, target, jwtSecret) ==
    /\ gate.pc \in {"idle", "rejected", "handled"}
    /\ UNCHANGED <<resetVars, ratingVars, lg, accountVars>>
    /\ LET req == GateArrived(header, target, jwtSecret)
       IN  IF header = <<>> \/ ~StartsWithBearer(header)
           THEN gate' = GateRejected(req, "authenticate", 401, MsgNoToken)
           ELSE IF header[2] = EmptyString
           THEN gate' = GateRejected(req, "authenticate", 401, MsgTokenFormat)
           ELSE IF jwtSecret = ""
           THEN gate' = GateRejected(req, "authenticate", 500, MsgAuthConfigMissing)
           ELSE IF jwt_verify(header[2], jwtSecret)
           THEN gate' = GatePassed(
                    [req EXCEPT !.user = [userId |-> header[2][2].userId,
                                          email |-> header[2][2].email]],
                    "authenticate", "authenticated")
           ELSE gate' = GateRejected(req, "authenticate", 401, MsgAuthFailed)

\* authenticate, for a request to /users/:id, with the signing key configured
authenticate(header, target) == authenticate_env(header, target, JWT_SECRET)

\* the ownership gate without its comparison
isOwnAccount_unchecked ==
    /\ gate.pc = "authenticated"
    /\ UNCHANGED <<resetVars, ratingVars, lg, accountVars>>
    /\ IF gate.user = NoIdentity
       THEN gate' = GateRejected(gate, "isOwnAccount", 401, MsgAuthRequired)
       ELSE gate' = GatePassed(gate, "isOwnAccount", "authorized")

\* isOwnAccount, the second middleware of PUT and DELETE /users/:id
isOwnAccount ==
    /\ gate.pc = "authenticated"
    /\ UNCHANGED <<resetVars, ratingVars, lg, accountVars>>
    /\ IF gate.user = NoIdentity
       THEN gate' = GateRejected(gate, "isOwnAccount", 401, MsgAuthRequired)
       ELSE IF gate.target # gate.user.userId
       THEN gate' = GateRejected(gate, "isOwnAccount", 403, MsgForbidden)
       ELSE gate' = GatePassed(gate, "isOwnAccount", "authorized")

\* the handler of PUT or DELETE /users/:id is entered, for req.params.id
userRoute_handler ==
    /\ gate.pc = "authorized"
    /\ UNCHANGED <<resetVars, ratingVars, lg, accountVars>>
    /\ gate' = [gate EXCEPT !.pc = "handled"]

\* time passes, by less than a second or by nearly ten hours
ClockSteps == {500, 35999500}

TimePasses(d) ==
    /\ ticks < MaxClockSteps
    /\ now' = now + d
    /\ ticks' = ticks + 1
    /\ UNCHANGED <<users, resetTokens, forgot, rp>>
    /\ UNCHANGED <<ratingVars, sessionVars, accountVars>>

\* the tokens that login has returned
IssuedTokens ==
    {lg[l].response.token :
        l \in {k \in LoginRequests :
                  lg[k].pc = "done" /\ lg[k].response.status = 200}}

OtherUser(u) == IF u = "u1" THEN "u2" ELSE "u1"

\* what a client can make of a token without the key
TamperedTokens(t) ==
    {<<t[1], t[2], HS256(t[2], WrongSecret)>>,
     <<t[1], [t[2] EXCEPT !.userId = OtherUser(@)], t[3]>>,
     <<t[1], [t[2] EXCEPT !.exp = @ + SessionTTL], t[3]>>}

\* the authorization headers presented to the gate
AuthorizationHeaders ==
    {<<>>, <<"Bearer">>, <<"Bearer", EmptyString>>, <<"Bearer", MalformedToken>>,
     <<"Basic", MalformedToken>>}
        \cup {<<"Bearer", t>> : t \in IssuedTokens}
        \cup {<<"Basic", t>> : t \in IssuedTokens}
        \cup {<<"Bearer", x>> : x \in UNION {TamperedTokens(t) : t \in IssuedTokens}}

\* the credentials presented to POST /users/login in the session flows
SessionLogins ==
    {<<"u1@mail.com", PwInitial>>, <<"u2@mail.com", PwInitial>>,
     <<"u1@mail.com", PwNew>>}

NextSession ==
    \/ \E d \in ClockSteps : TimePasses(d)
    \/ \E l \in LoginRequests, c \in SessionLogins : login_findUser(l, c[1], c[2])
    \/ \E l \in LoginRequests : login_compare(l)
    \/ \E l \in LoginRequests : login_dbError(l)
    \/ \E h \in AuthorizationHeaders, id \in Users : authenticate(h, id)
    \/ isOwnAccount
    \/ userRoute_handler

\* the rating route with the user of the rating read from the request body
ratingRoute_createRating_trustingBody(r, bodyUser, rate) ==
    /\ gate.pc = "authenticated"
    /\ cr[r].pc = "idle"
    /\ IF r = 1 THEN TRUE ELSE cr[r - 1].pc # "idle"
    /\ UNCHANGED <<resetVars, accountVars, lg, ratings, films>>
    /\ gate' = [gate EXCEPT !.pc = "handled"]
    /\ cr' = [CreateRatingEntered(r, bodyUser, gate.target, rate)
                 EXCEPT ![r].bearer = [token |-> gate.header[2], at |-> gate.at]]

\* router.post("/rate/:filmId", authenticate, createRating): createRating is
\* entered after the next() of authenticate and reads req.user?.userId,
\* req.params.filmId and, of the body, rate only (bodyUser is a user field
\* the client put in the body)
ratingRoute_createRating(r, bodyUser, rate) ==
    /\ gate.pc = "authenticated"
    /\ cr[r].pc = "idle"
    /\ IF r = 1 THEN TRUE ELSE cr[r - 1].pc # "idle"   \* numbered as they arrive
    /\ UNCHANGED <<resetVars, accountVars, lg, ratings, films>>
    /\ gate' = [gate EXCEPT !.pc = "handled"]
    /\ cr' = [CreateRatingEntered(r, gate.user.userId, gate.target, rate)
                 EXCEPT ![r].bearer = [token |-> gate.header[2], at |-> gate.at]]

\* the credentials and the rates presented in the rating-route flows
RouteLogins == {<<"u1@mail.com", PwInitial>>, <<"u2@mail.com", PwInitial>>}
RouteRates == {375, 600}

\* the authorization headers presented to the rating route
RouteHeaders ==
    {<<>>} \cup {<<"Bearer", t>> : t \in IssuedTokens}
        \cup {<<"Bearer", x>> : x \in UNION {TamperedTokens(t) : t \in IssuedTokens}}

\* POST /ratings/rate/:filmId behind authenticate
NextRatingRoute ==
    \/ TimePasses(1000 * SessionTTL)
    \/ \E l \in LoginRequests, c \in RouteLogins : login_findUser(l, c[1], c[2])
    \/ \E l \in LoginRequests : login_compare(l)
    \/ \E h \in RouteHeaders, f \in Films : authenticate(h, f)
    \/ \E r \in CreateRequests, u \in Users, v \in RouteRates :
           ratingRoute_createRating(r, u, v)
    \/ \E r \in CreateRequests : createRating_findExisting(r)
    \/ \E r \in CreateRequests : createRating_save(r)
    \/ \E r \in CreateRequests : updateFilmAverageRating_find(r)
    \/ \E r \in CreateRequests : updateFilmAverageRating_update(r)
    \/ \E r \in CreateRequests : createRating_respond(r)

\* process.env.JWT_SECRET: not set, or the key of the deployment
EnvSecrets == {"", JWT_SECRET}

\* the session flows in processes with and without the signing key
NextGate ==
    \/ \E d \in ClockSteps : TimePasses(d)
    \/ \E l \in LoginRequests, c \in SessionLogins : login_findUser(l, c[1], c[2])
    \/ \E l \in LoginRequests : login_compare(l)
    \/ \E h \in AuthorizationHeaders, k \in EnvSecrets :
           authenticate_env(h, "u1", k)
    \/ isOwnAccount
    \/ userRoute_handler

\* the bodies presented to reset-password and to login in the credential flows
CredentialResets == TokenValues \X {PwNew, PwLong}

CredentialLogins ==
    ({"u1@mail.com", "nobody@mail.com"} \X {PwInitial, PwNew, PwLong, PwLongTwin})
        \cup {<<"", PwInitial>>, <<"u1@mail.com", EmptyString>>}

NextCredential ==
    \/ \E t \in TokenValues : requestPasswordReset("u1@mail.com", t, "ok")
    \/ \E r \in ResetRequests, b \in CredentialResets :
           resetPassword_findToken(r, b[1], b[2])
    \/ \E r \in ResetRequests : resetPassword_findUser(r)
    \/ \E r \in ResetRequests, s \in Salts : resetPassword_saveUser(r, s)
    \/ \E r \in ResetRequests : resetPassword_saveToken(r)
    \/ \E r \in ResetRequests : resetPassword_dbError(r)
    \/ \E l \in LoginRequests, c \in CredentialLogins :
           login_findUser(l, c[1], c[2])
    \/ \E l \in LoginRequests : login_compare(l)
    \/ \E l \in LoginRequests : login_dbError(l)

(***************************************************************************)
(* Accounts: registration (POST /users) and the user update (PUT           *)
(* /users/:id).  UserController inherits create and update from the        *)
(* generic controller, which hands the request body to UserDAO.create and  *)
(* to UserDAO.update.  The repository holds two UserDAO classes: one that  *)
(* inherits GlobalDAO.update and one that overrides update; a deployment   *)
(* runs one of them, fixed by its first user update.                       *)
(***************************************************************************)
\* a field the request body does not carry
Absent == <<"undefined">>

\* JavaScript's truthiness of a body field: a non-empty string
Truthy(v) == v # Absent /\ v # EmptyString

Body(password, currentPassword, firstName) ==
    [password |-> password, currentPassword |-> currentPassword,
     firstName |-> firstName]

\* the bodies presented to PUT /users/:id
UpdateInputs ==
    {Body(PwNew, Absent, Absent),
     Body(PwNew, PwInitial, Absent),
     Body(PwNew, PwWeak, NameNew),
     Body(PwNew, EmptyString, Absent),
     Body(PwWeak, PwInitial, Absent),
     Body(Absent, Absent, NameNew)}

MsgCurrentPasswordIncorrect == "Current password is incorrect"
MsgDocumentNotFound == "Document not found"
MsgUpdateUserNotFound == "User not found"
MsgValidationFailed == "Validation failed"
MsgNoDocumentFound == "No document found for query"

NoBody == Body(Absent, Absent, Absent)

UpIdle ==
    [pc |-> "idle", dao |-> "any", id |-> "", data |-> NoBody,
     hash |-> NoHash, error |-> "",
     \* history, for the properties only:
     verified |-> FALSE]    \* the current password it carried matched the
                            \* stored credential when the update was applied

InitAccount == up = UpIdle

\* the password field holding the very string it was given: no bcrypt hash
StoredAsGiven(plain) == [salt |-> "", digest |-> plain]

\* the update has thrown: the controller answers with the error
UpFailed(req, message) == [req EXCEPT !.pc = "failed", !.error = message]

\* the update has returned the document
UpUpdated(req) == [req EXCEPT !.pc = "updated", !.error = ""]

\* GlobalDAO.update on the User model: findByIdAndUpdate(id, updateData,
\* { new: true, runValidators: true }).  The validators of the updated paths
\* run on the given values; the pre('save') hook does not run; fields the
\* schema does not declare (currentPassword) are dropped.
GlobalDAO_update_User(req) ==
    IF req.id \notin DOMAIN users
    THEN /\ up' = UpFailed(req, MsgDocumentNotFound)
         /\ UNCHANGED users
    ELSE IF req.data.password # Absent /\ ~PASSWORD_REGEX_test(req.data.password)
    THEN /\ up' = UpFailed(req, MsgValidationFailed)
         /\ UNCHANGED users
    ELSE /\ up' = UpUpdated([req EXCEPT !.verified =
                      /\ req.data.currentPassword # Absent
                      /\ comparePassword(users[req.id].password,
                                         req.data.currentPassword)])
         /\ users' = [users EXCEPT ![req.id] =
                [@ EXCEPT
                   !.password = IF req.data.password # Absent
                                THEN StoredAsGiven(req.data.password) ELSE @,
                   !.plain = IF req.data.password # Absent
                             THEN req.data.password ELSE @,
                   !.firstName = IF req.data.firstName # Absent
                                 THEN req.data.firstName ELSE @]]

\* the request as it reaches UserDAO.update
Arrived(dao, id, data) ==
    [UpIdle EXCEPT !.dao = dao, !.id = id, !.data = data]

\* PUT /users/:id with the UserDAO that inherits update from GlobalDAO
UserDAO_update_inherited(id, data) ==
    /\ up.pc \in {"idle", "updated", "failed"}
    /\ up.dao \in {"any", "inherited"}
    /\ UNCHANGED <<now, ticks, resetTokens, forgot, rp>>
    /\ UNCHANGED <<ratingVars, sessionVars>>
    /\ GlobalDAO_update_User(Arrived("inherited", id, data))

\* PUT /users/:id with the UserDAO that overrides update:
\* the password test and this.model.findById(id), or super.update
UserDAO_update_findById(id, data) ==
    /\ up.pc \in {"idle", "updated", "failed"}
    /\ up.dao \in {"any", "override"}
    /\ UNCHANGED <<now, ticks, resetTokens, forgot, rp>>
    /\ UNCHANGED <<ratingVars, sessionVars>>
    /\ LET req == Arrived("override", id, data)
       IN  IF ~Truthy(data.password)
           THEN GlobalDAO_update_User(req)
           ELSE /\ UNCHANGED users
                /\ IF id \notin DOMAIN users
                   THEN up' = UpFailed(req, MsgUpdateUserNotFound)
                   ELSE IF Truthy(data.currentPassword)
                   THEN up' = [req EXCEPT !.pc = "comparePassword",
                                  !.hash = users[id].password]
                   ELSE up' = [req EXCEPT !.pc = "save"]

\* const isPasswordValid = await user.comparePassword(currentPassword),
\* on the document findById loaded
UserDAO_update_comparePassword ==
    /\ up.pc = "comparePassword"
    /\ UNCHANGED <<resetVars, ratingVars, sessionVars>>
    /\ IF comparePassword(up.hash, up.data.currentPassword)
       THEN up' = [up EXCEPT !.pc = "save"]
       ELSE up' = UpFailed(up, MsgCurrentPasswordIncorrect)

\* the keys of updateData are assigned to the document; await user.save():
\* schema validation, then the pre-save hook hashes the modified password
UserDAO_update_save(salt) ==
    /\ up.pc = "save"
    /\ UNCHANGED <<now, ticks, resetTokens, forgot, rp>>
    /\ UNCHANGED <<ratingVars, sessionVars>>
    /\ IF up.id \notin DOMAIN users
       \* the document was deleted since findById: save() rejects
       THEN /\ up' = UpFailed(up, MsgNoDocumentFound)
            /\ UNCHANGED users
       ELSE IF ~PASSWORD_REGEX_test(up.data.password)
       THEN /\ up' = UpFailed(up, MsgValidationFailed)
            /\ UNCHANGED users
       ELSE /\ up' = UpUpdated([up EXCEPT !.verified =
                         /\ Truthy(up.data.currentPassword)
                         /\ comparePassword(users[up.id].password,
                                            up.data.currentPassword)])
            /\ users' = [users EXCEPT ![up.id] =
                   [@ EXCEPT
                      !.password = bcrypt_hash(up.data.password, salt),
                      !.plain = up.data.password,
                      !.firstName = IF up.data.firstName # Absent
                                    THEN up.data.firstName ELSE @]]

\* POST /users: UserDAO.create -> new User(data).save(): schema validation,
\* the unique index on email, the pre-save hook
NewUsers == {"u3"}
RegisterEmails == {"u3@mail.com", "u1@mail.com"}

UserDAO_create(id, email, password, salt) ==
    /\ id \notin DOMAIN users
    /\ PASSWORD_REGEX_test(password)
    /\ UserByEmail(email) = "none"
    /\ users' = users @@ (id :> [email |-> email,
                                 password |-> bcrypt_hash(password, salt),
                                 firstName |-> NameInitial,
                                 plain |-> password])
    /\ UNCHANGED <<now, ticks, resetTokens, forgot, rp>>
    /\ UNCHANGED <<ratingVars, sessionVars, accountVars>>

\* POST /users: UserController.create, inherited from GlobalController
UserController_create(id, email, password, salt) ==
    UserDAO_create(id, email, password, salt)

\* PUT /users/:id: UserController.update, inherited from GlobalController,
\* calls the update of the UserDAO class the deployment runs
UserController_update(id, data) ==
    \/ UserDAO_update_inherited(id, data)
    \/ UserDAO_update_findById(id, data)

\* GlobalDAO.delete on the User model: findByIdAndDelete(id)
GlobalDAO_delete_User(id) ==
    /\ id \in DOMAIN users
    /\ users' = [u \in DOMAIN users \ {id} |-> users[u]]

\* DELETE /users/:id: UserController.delete, inherited from GlobalController
UserController_delete(id) ==
    /\ GlobalDAO_delete_User(id)
    /\ UNCHANGED <<now, ticks, resetTokens, forgot, rp>>
    /\ UNCHANGED <<ratingVars, sessionVars, accountVars>>

\* the account whose owner sends the updates, and the first reset request
UpdatedUsers == {"u1"}
AccountResets == {1}

NextAccount ==
    \/ \E t \in TokenValues : requestPasswordReset("u1@mail.com", t, "ok")
    \/ \E r \in AccountResets, t \in TokenValues :
           resetPassword_findToken(r, t, PwLong)
    \/ \E r \in AccountResets : resetPassword_findUser(r)
    \/ \E r \in AccountResets : resetPassword_saveUser(r, "s2")
    \/ \E r \in AccountResets : resetPassword_saveToken(r)
    \/ \E id \in NewUsers, e \in RegisterEmails, p \in {PwNew, PwWeak} :
           UserController_create(id, e, p, "s2")
    \/ \E id \in UpdatedUsers, b \in UpdateInputs : UserController_update(id, b)
    \/ UserDAO_update_comparePassword
    \/ \E s \in Salts : UserDAO_update_save(s)

\* the login request of the flows below
StaleLogins == {1}

\* sessions that outlive a change of the account: login with the first
\* password, then a reset, an update or the deletion of the account
NextStale ==
    \/ TimePasses(1000 * SessionTTL)
    \/ \E t \in TokenValues : requestPasswordReset("u1@mail.com", t, "ok")
    \/ \E r \in AccountResets : resetPassword_findToken(r, <<1>>, PwNew)
    \/ \E r \in AccountResets : resetPassword_findUser(r)
    \/ \E r \in AccountResets : resetPassword_saveUser(r, "s2")
    \/ \E r \in AccountResets : resetPassword_saveToken(r)
    \/ \E id \in UpdatedUsers :
           UserController_update(id, Body(PwNew, Absent, Absent))
    \/ UserDAO_update_save("s2")
    \/ \E id \in UpdatedUsers : UserController_delete(id)
    \/ \E l \in StaleLogins : login_findUser(l, "u1@mail.com", PwInitial)
    \/ \E l \in StaleLogins : login_compare(l)
    \/ \E t \in IssuedTokens : authenticate(<<"Bearer", t>>, "u1")
    \/ authenticate(<<>>, "u1")

\* the forgot-password requests in full
NextForgot ==
    \/ Tick
    \/ \E e \in EmailInputs, t \in TokenValues, o \in DeliveryOutcomes :
           requestPasswordReset(e, t, o)
    \/ \E r \in ResetRequests, b \in ResetInputs :
           resetPassword_findToken(r, b[1], b[2])
    \/ \E r \in ResetRequests : resetPassword_findUser(r)
    \/ \E r \in ResetRequests, s \in Salts : resetPassword_saveUser(r, s)
    \/ \E r \in ResetRequests : resetPassword_saveToken(r)
    \/ \E r \in ResetRequests : resetPassword_dbError(r)

Init == InitReset /\ InitRating /\ InitSession /\ InitAccount

\* the password-reset flows
SpecReset == Init /\ [][NextReset]_vars

\* the rating flows
SpecRating == Init /\ [][NextRating]_vars
SpecRatingRoute == Init /\ [][NextRatingRoute]_vars

\* the session flows: login, authenticate, isOwnAccount
SpecSession == Init /\ [][NextSession]_vars

\* the credential flows: password reset and login
SpecCredential == Init /\ [][NextCredential]_vars

\* the gates, with the signing key configured or missing
SpecGate == Init /\ [][NextGate]_vars

\* sessions and the changes of the account they belong to
SpecStale == Init /\ [][NextStale]_vars

\* the forgot-password flows, with every email and every delivery outcome
SpecForgot == Init /\ [][NextForgot]_vars

\* the account flows: registration, user update and password reset
SpecAccount == Init /\ [][NextAccount]_vars

(***************************************************************************)
(* Properties of the password-reset flows, checked under SpecReset.        *)
(***************************************************************************)
Succeeded(r) == rp[r].pc = "done" /\ rp[r].response.status = 200

\* C1: for every reset token, at most one resetPassword request presenting
\* it ends in success (and so changes the owner's password), whatever the
\* interleaving of the requests.
AtMostOneSuccessfulResetPerToken ==
    \A q, r \in ResetRequests :
        (q # r /\ Succeeded(q) /\ Succeeded(r)) => rp[q].doc # rp[r].doc

CredentialUpdateMarksTokenUsed ==
    \A r \in ResetRequests :
        (rp[r].pc = "done" /\ rp[r].wrotePassword) =>
            resetTokens[rp[r].doc].used

\* C4: a ledger entry is marked used only by a request whose credential
\* update took effect: a request reaches the marking of its token, or
\* succeeds, only after its user.save() has taken effect.
TokenUsedOnlyAfterCredentialUpdate ==
    /\ \A i \in 1..Len(resetTokens) :
           resetTokens[i].used =>
               \E r \in ResetRequests : rp[r].doc = i /\ rp[r].wrotePassword
    /\ \A r \in ResetRequests :
           (rp[r].pc = "saveToken" \/ Succeeded(r)) => rp[r].wrotePassword

\* the saving of the new password failed and the token is still unused
FailedSaveLeavesTokenUnused ==
    \E r \in ResetRequests :
        /\ rp[r].pc = "done"
        /\ rp[r].response.message \in {MsgPasswordRequirements, MsgResetError}
        /\ rp[r].doc # 0
        /\ ~rp[r].wrotePassword
        /\ ~resetTokens[rp[r].doc].used

IsRoundedMean(a, S) ==
    LET n == Cardinality(S)
        sum == SumRates(S)
    IN  /\ 10 * n * a <= sum + 5 * n
        /\ sum + 5 * n < 10 * n * (a + 1)

\* the aggregate stored on film f in the collections fs (films), rs (ratings)
\* is the rounded mean and the count of the ratings of f
AggregateCorrectIn(fs, rs, f) ==
    LET S == {d \in rs : d.film = f}
    IN  /\ fs[f].totalRatings = Cardinality(S)
        /\ IF S = {} THEN fs[f].rating = 0 ELSE IsRoundedMean(fs[f].rating, S)

\* no createRating request is in flight on film f
Quiescent(f) == \A r \in CreateRequests : InFlight(r) => cr[r].film # f

ExampleRating(i, v) == [id |-> i, user |-> "u", film |-> "f1", rate |-> v]
ExampleRatings == {ExampleRating(1, 300), ExampleRating(2, 500), ExampleRating(3, 400)}

\* C6: there is at most one Rating record per (user, film) pair.
OneRatingPerUserAndFilm ==
    \A d, e \in ratings : (d.user = e.user /\ d.film = e.film) => d = e

\* C7: when createRating finds that the user already has a rating for the
\* film, the request ends rejected, and the step adds no Rating record and
\* leaves the film aggregates unchanged.
DuplicateCreateRejected ==
    [][\A r \in CreateRequests :
          (/\ cr[r].pc = "findExisting"
           /\ cr'[r].pc # "findExisting"
           /\ \E d \in ratings : d.user = cr[r].user /\ d.film = cr[r].film)
          => /\ cr'[r].pc = "done"
             /\ cr'[r].response \in {Response(400, MsgAlreadyRated),
                                     Response(500, MsgCreateError)}
             /\ ratings' = ratings
             /\ films' = films]_vars

\* a second createRating for a rated film was answered with the conflict
DuplicateWasRejected ==
    \E r \in CreateRequests :
        /\ cr[r].pc = "done"
        /\ cr[r].response = Response(400, MsgAlreadyRated)
        /\ \E d \in ratings : d.film = cr[r].film

\* the createRating request r answers 201 in this step
Created(r) ==
    /\ cr[r].pc = "readFilm"
    /\ cr'[r].pc = "done"
    /\ cr'[r].response.status = 201

NeverRated(f) ==
    \A r \in CreateRequests :
        cr[r].film = f =>
            \/ cr[r].pc \in {"findExisting", "save"}
            \/ cr[r].pc = "done" /\ cr[r].response.status \in {400, 404}

DeleteRecomputesAggregate ==
    [][\A d \in ratings :
          (d \notin ratings' /\ ratings' \subseteq ratings /\ Quiescent(d.film))
          => /\ AverageOf(ExampleRatings \ {ExampleRating(1, 300)}) = 45
             /\ AggregateCorrectIn(films', ratings', d.film)]_vars

\* C10: after the value of a rating is changed (no createRating in flight on
\* the film), the film's aggregate is the rounded mean and the count of the
\* current ratings.
UpdateRecomputesAggregate ==
    [][\A d \in ratings : \A e \in ratings' :
          (d.id = e.id /\ d.rate # e.rate /\ Quiescent(d.film))
          => AggregateCorrectIn(films', ratings', d.film)]_vars

\* C11: createRating lets every rate of the closed range [0, 5] past its
\* validation (0 and 5 included), and a rate outside the range ends with the
\* validation answer in a step that adds no Rating record and leaves the film
\* aggregates unchanged.
RateRangeEnforced ==
    /\ [](\A r \in CreateRequests :
             (cr[r].pc = "done" /\ cr[r].response = Response(400, MsgRateRange))
                 => (cr[r].rate < 0 \/ cr[r].rate > 500))
    /\ [][\A r \in CreateRequests :
              (cr[r].pc = "idle" /\ cr'[r].pc # "idle"
                 /\ (cr'[r].rate < 0 \/ cr'[r].rate > 500))
              => /\ cr'[r].pc = "done"
                 /\ cr'[r].response = Response(400, MsgRateRange)
                 /\ ratings' = ratings
                 /\ films' = films]_vars

RecomputeFailureKeepsRating ==
    [][\A r \in CreateRequests :
          ((cr[r].pc \in {"scan", "writeFilm"} /\ cr'[r].recomputeFailed)
             \/ (cr[r].recomputeFailed /\ cr'[r].pc # cr[r].pc))
          => (ratings' = ratings /\ films' = films)]_vars

\* a request answered 201 after its recomputation failed: its rating is
\* stored and the film still shows no rating
StaleAggregateAfterFailedRecompute ==
    \E r \in CreateRequests :
        /\ cr[r].pc = "done"
        /\ cr[r].response.status = 201
        /\ cr[r].recomputeFailed
        /\ \E d \in ratings : d.id = r /\ d.film = cr[r].film
        /\ films[cr[r].film] = [rating |-> 0, totalRatings |-> 0]

(***************************************************************************)
(* Properties of the session flows, checked under SpecSession.             *)
(***************************************************************************)

\* authenticate has called next() for the request at the gate
PassedAuthentication ==
    \/ gate.pc \in {"authenticated", "authorized", "handled"}
    \/ gate.pc = "rejected" /\ gate.status = 403

\* the request at the gate presented the token of the login request l
PresentsTokenOf(l) ==
    /\ lg[l].pc = "done" /\ lg[l].response.status = 200
    /\ gate.header = <<"Bearer", lg[l].response.token>>

\* C14: authenticate calls next() and attaches an identity only for a header
\* "Bearer <token>" whose token is signed with the configured key (it is one
\* that login issued) and has not expired when it is presented; in every
\* other case the request is rejected with no identity attached.
AuthGateNeverFailsOpen ==
    /\ (PassedAuthentication \/ gate.user # NoIdentity) =>
           /\ Len(gate.header) = 2 /\ gate.header[1] = "Bearer"
           /\ Len(gate.header[2]) = 3
           /\ gate.header[2][3] = HS256(gate.header[2][2], JWT_SECRET)
           /\ gate.header[2] \in IssuedTokens
           /\ NumericDate(gate.at) < gate.header[2][2].exp
           /\ \E l \in LoginRequests :
                  /\ PresentsTokenOf(l)
                  /\ gate.at < lg[l].issuedAt + 1000 * SessionTTL
    /\ (gate.pc = "rejected" /\ gate.status # 403) =>
           (gate.user = NoIdentity /\ gate.status \in {401, 500})

\* a well-formed token with a signature made without the key was rejected
ForgedTokenWasRejected ==
    /\ gate.pc = "rejected" /\ gate.status = 401
    /\ Len(gate.header) = 2 /\ gate.header[1] = "Bearer"
    /\ Len(gate.header[2]) = 3
    /\ gate.header[2][3] # HS256(gate.header[2][2], JWT_SECRET)
    /\ NumericDate(gate.at) < gate.header[2][2].exp

\* C15: a token that login issued, presented before its expiry, yields
\* req.user with exactly the id and the email of the user that login
\* answered for; a token whose signature does not belong to its payload
\* yields no identity.
IssueValidateRoundTrip ==
    /\ \A l \in LoginRequests :
           (/\ PresentsTokenOf(l)
            /\ gate.pc # "idle"
            /\ NumericDate(gate.at) < lg[l].response.token[2].exp)
           => /\ PassedAuthentication
              /\ gate.user = [userId |-> lg[l].response.user.id,
                               email |-> lg[l].response.user.email]
              /\ gate.user.userId \in Users
              /\ gate.user.email = EmailOf(gate.user.userId)
    /\ (/\ gate.pc # "idle"
        /\ Len(gate.header) = 2
        /\ Len(gate.header[2]) = 3
        /\ gate.header[2][3] # HS256(gate.header[2][2], JWT_SECRET))
       => (gate.pc = "rejected" /\ gate.user = NoIdentity)

\* the token issued to u2 was presented in time and yielded u2's identity
RoundTripYieldedIdentity ==
    \E l \in LoginRequests :
        /\ PresentsTokenOf(l)
        /\ gate.pc = "authenticated"
        /\ gate.at > lg[l].issuedAt
        /\ gate.user = [userId |-> "u2", email |-> "u2@mail.com"]

\* C16, as stated: a token issued at time t is accepted at every time before
\* t + 10 hours and rejected at every time after it, and the expiresIn of
\* the login response is the lifetime embedded in the token.
SessionLastsTenHours ==
    \A l \in LoginRequests :
        (PresentsTokenOf(l) /\ gate.pc # "idle") =>
            /\ gate.at < lg[l].issuedAt + 1000 * SessionTTL
                   => PassedAuthentication
            /\ gate.at > lg[l].issuedAt + 1000 * SessionTTL
                   => (gate.pc = "rejected" /\ gate.status = 401)
            /\ lg[l].response.expiresIn =
                   lg[l].response.token[2].exp - lg[l].response.token[2].iat

\* C16, amended: a token issued at time t expires at the whole second
\* floor(t) + 36000: it is accepted at every time whose whole second is
\* before that and rejected with the authentication failure from then on (so
\* at every time from t + 10 hours on, and never before t + 10 hours minus
\* one second); the expiresIn of the login response is the lifetime embedded
\* in the token, and an issued token and its expiry never change.
SessionLastsTenHoursOfWholeSeconds ==
    /\ [](\A l \in LoginRequests :
             (PresentsTokenOf(l) /\ gate.pc # "idle") =>
                 /\ NumericDate(gate.at) < NumericDate(lg[l].issuedAt) + SessionTTL
                        => PassedAuthentication
                 /\ NumericDate(gate.at) >= NumericDate(lg[l].issuedAt) + SessionTTL
                        => /\ gate.pc = "rejected"
                           /\ gate.status = 401
                           /\ gate.message = MsgAuthFailed
                 /\ gate.at >= lg[l].issuedAt + 1000 * SessionTTL
                        => gate.pc = "rejected"
                 /\ gate.at <= lg[l].issuedAt + 1000 * (SessionTTL - 1)
                        => PassedAuthentication
                 /\ lg[l].response.expiresIn = SessionTTL
                 /\ lg[l].response.token[2].exp =
                        lg[l].response.token[2].iat + SessionTTL
                 /\ lg[l].response.token[2].iat = NumericDate(lg[l].issuedAt))
    /\ [][\A l \in LoginRequests :
              lg[l].pc = "done" => lg'[l] = lg[l]]_vars

\* a token was rejected as expired less than ten hours after it was issued
TokenExpiredWithinTenHours ==
    \E l \in LoginRequests :
        /\ PresentsTokenOf(l)
        /\ gate.pc = "rejected" /\ gate.message = MsgAuthFailed
        /\ gate.at < lg[l].issuedAt + 1000 * SessionTTL
        /\ gate.at > lg[l].issuedAt + 1000 * (SessionTTL - 1)

\* C17: isOwnAccount calls next() if and only if the userId of the
\* authenticated identity is the :id of the route, and answers 403 (not
\* 401) on a mismatch; the handler of the route runs only for the caller's
\* own id.
OwnershipGate ==
    /\ [](gate.pc \in {"authorized", "handled"} =>
             (gate.user # NoIdentity /\ gate.user.userId = gate.target))
    /\ [][(gate.pc = "authenticated" /\ gate'.pc # "authenticated") =>
              IF gate.user.userId = gate.target
              THEN gate'.pc = "authorized" /\ gate'.user = gate.user
              ELSE /\ gate'.pc = "rejected"
                   /\ gate'.status = 403
                   /\ gate'.message = MsgForbidden
                   /\ gate'.message # MsgAuthFailed]_vars
    /\ [][(gate.pc # "handled" /\ gate'.pc = "handled") =>
              (gate.pc = "authorized" /\ gate'.target = gate.user.userId)]_vars

\* an authenticated user asked for another user's account and was refused
ForeignAccountWasRefused ==
    /\ gate.pc = "rejected" /\ gate.status = 403
    /\ gate.user.userId \in Users
    /\ gate.target \in Users
    /\ gate.target # gate.user.userId

(***************************************************************************)
(* Properties of the credential flows, checked under SpecCredential.       *)
(***************************************************************************)

\* the login request l has answered and none of its database calls threw
LoginAnswered(l) == lg[l].pc = "done" /\ ~lg[l].failed

\* C18: a login returns a session token if and only if its email belongs to
\* a registered user and its password is the password set for that user:
\* the password set succeeds, every other password fails.
LoginIffPasswordMatches ==
    \A l \in LoginRequests :
        LoginAnswered(l) =>
            ((lg[l].response.status = 200 /\ lg[l].response.token # EmptyString)
                <=> (lg[l].known /\ lg[l].right))

\* C19: after a password reset has succeeded (and no password was saved
\* since), a login with the password it replaced fails and a login with its
\* new password succeeds.
ResetSwitchesPassword ==
    \A l \in LoginRequests :
        LoginAnswered(l) =>
            /\ lg[l].presentsNew => lg[l].response.status = 200
            /\ lg[l].presentsOld =>
                   lg[l].response = LoginFailure(401, MsgInvalidCredentials)

\* the login l failed for an email that is not registered
FailedForUnknownEmail(l) ==
    /\ LoginAnswered(l)
    /\ ~lg[l].known
    /\ lg[l].response.status # 400

\* the login l failed for a registered email with a wrong password
FailedForWrongPassword(l) ==
    /\ LoginAnswered(l)
    /\ lg[l].known /\ ~lg[l].right
    /\ lg[l].response.status \notin {200, 400}

\* C20: the response (status, message and the rest of the body) of a login
\* that fails for an unregistered email is the response of a login that
\* fails for a registered email with a wrong password.
FailedLoginUndifferentiated ==
    \A k, l \in LoginRequests :
        (FailedForUnknownEmail(k) /\ FailedForWrongPassword(l)) =>
            /\ lg[k].response = lg[l].response
            /\ lg[k].response = LoginFailure(401, MsgInvalidCredentials)

\* one login failed for an unknown email and another for a wrong password
BothFailuresSeen ==
    \E k, l \in LoginRequests :
        FailedForUnknownEmail(k) /\ FailedForWrongPassword(l)

(***************************************************************************)
(* Properties of the forgot-password flows, checked under SpecForgot.      *)
(***************************************************************************)
\* the request reached the handler's lookup for an email nobody registered
ForgotUnregistered(f) == f.email # "" /\ ~f.registered

\* the request was for a registered email and the message was delivered
ForgotDelivered(f) == f.registered /\ f.delivery = "ok"

WeakPasswordKeepsToken ==
    [][\A r \in ResetRequests :
           (/\ rp[r].pc = "saveUser"
            /\ ~PASSWORD_REGEX_test(rp[r].newPassword)
            /\ rp'[r].pc = "done"
            /\ rp'[r].response.status # 500) =>
               /\ rp'[r].response = Response(400, MsgPasswordRequirements)
               /\ rp'[r].response # Response(400, MsgInvalidToken)
               /\ users' = users
               /\ resetTokens' = resetTokens
               /\ ~rp'[r].wrotePassword]_vars

\* a token was consumed by a request that arrived after another request
\* presenting it had been refused for its password
TokenConsumedAfterWeakPassword ==
    \E r \in ResetRequests : Succeeded(r) /\ rp[r].afterWeak

(***************************************************************************)
(* Properties of the account flows, checked under SpecAccount.             *)
(***************************************************************************)
\* C24: after any sequence of registrations, user updates carrying a
\* password and password resets, the password field of every user holds a
\* salted bcrypt hash and never the plaintext that was submitted.
StoredSecretIsSaltedHash ==
    \A u \in DOMAIN users :
        /\ users[u].password.salt \in Salts
        /\ users[u].password.digest # users[u].plain
        /\ users[u].password # StoredAsGiven(users[u].plain)

\* C25: a user update that changes the password and carries a current
\* password is applied only if that current password verifies against the
\* stored credential; an update that fails leaves every user document as it
\* was.
CurrentPasswordGuardsUpdate ==
    [][/\ (up' # up /\ up'.pc = "updated"
              /\ up'.data.password # Absent
              /\ up'.data.currentPassword # Absent) => up'.verified
       /\ (up' # up /\ up'.pc = "failed") => users' = users]_vars

(***************************************************************************)
(* Further properties of the rating flows, checked under SpecRating.       *)
(***************************************************************************)
\* both createRating requests have answered 201 with their recomputation
\* run, and their two Rating records, by different users on film f, are in
\* the collection as they were saved
BothCreated(d, e, f) ==
    /\ d \in ratings /\ e \in ratings
    /\ d.id = 1 /\ e.id = 2
    /\ d.user # e.user
    /\ d.film = f /\ e.film = f
    /\ d.rate \in RateInputs /\ e.rate \in RateInputs
    /\ \A r \in CreateRequests :
           /\ cr[r].pc = "done"
           /\ cr[r].response.status = 201
           /\ ~cr[r].recomputeFailed

\* C27: two createRating requests by different users on the same film can
\* interleave so that, both having completed and both Rating records
\* existing, the film's aggregate reflects one of the two ratings only; the
\* aggregate is then the count and rounded mean of one of them, otherwise of
\* both.
RacingCreatesAggregateOneOrBoth ==
    \A f \in Films : \A d, e \in ratings :
        BothCreated(d, e, f) =>
            \/ /\ films[f].totalRatings = 2
               /\ films[f].rating = AverageOf({d, e})
            \/ /\ films[f].totalRatings = 1
               /\ films[f].rating \in {AverageOf({d}), AverageOf({e})}

\* both requests have completed, both records exist, and the film counts one
RacingCreatesLoseOneRating ==
    \E f \in Films : \E d, e \in ratings :
        /\ BothCreated(d, e, f)
        /\ films[f].totalRatings = 1
        /\ Cardinality(RatingsOfFilm(f)) = 2

\* the aggregate that request r found on its film was stale: it was not the
\* rounded mean and count of the film's ratings without the one r saved
FoundStale(r) ==
    ~AggregateCorrectIn([f \in {cr[r].film} |-> cr[r].prior],
                        {d \in ratings : d.id # r}, cr[r].film)

\* C28: when the stored aggregate of a film is stale, the next rating
\* mutation on the film (create, update or delete) that runs to completion
\* with no other request interleaved leaves the aggregate equal to the
\* rounded mean and the count of the film's ratings.
StaleAggregateHealedByNextMutation ==
    [][\A f \in Films :
          /\ \A r \in CreateRequests :
                 (/\ Created(r) /\ cr[r].film = f
                  /\ cr[r].alone /\ ~cr[r].recomputeFailed
                  /\ FoundStale(r))
                 => AggregateCorrectIn(films', ratings', f)
          /\ \A d \in ratings :
                 (/\ d.film = f /\ d \notin ratings'
                  /\ Quiescent(f)
                  /\ ~AggregateCorrectIn(films, ratings, f))
                 => AggregateCorrectIn(films', ratings', f)]_vars

\* C29: the recomputation depends on the set of Rating records only: what
\* it scans is the count and rounded mean of the film's records, what it
\* writes is what it scanned whatever the film stored before, and writing
\* over an aggregate that is already the scanned one changes nothing.
RecomputeDependsOnRatingsOnly ==
    [][\A r \in CreateRequests :
          /\ (cr[r].pc = "scan" /\ cr'[r].pc = "writeFilm") =>
                 /\ cr'[r].scanTotal = Cardinality(RatingsOfFilm(cr[r].film))
                 /\ cr'[r].scanRating = AverageOf(RatingsOfFilm(cr[r].film))
          /\ (/\ cr[r].pc = "writeFilm" /\ cr'[r].pc = "readFilm"
              /\ ~cr'[r].recomputeFailed) =>
                 /\ films'[cr[r].film] =
                        [rating |-> cr[r].scanRating,
                         totalRatings |-> cr[r].scanTotal]
                 /\ (cr[r].scanTotal = Cardinality(RatingsOfFilm(cr[r].film))
                     /\ cr[r].scanRating = AverageOf(RatingsOfFilm(cr[r].film)))
                        => AggregateCorrectIn(films', ratings', cr[r].film)
                 /\ films[cr[r].film] = films'[cr[r].film] => films' = films]_vars

\* two recomputations over the same two records have written the film: one
\* replaced a different aggregate, the other the aggregate it wrote itself
RecomputedOverDifferentPriors ==
    \E q, r \in CreateRequests :
        /\ cr[q].pc = "readFilm" /\ ~cr[q].recomputeFailed
        /\ cr[r].pc = "readFilm" /\ ~cr[r].recomputeFailed
        /\ cr[q].film = cr[r].film
        /\ cr[q].prior # films[cr[q].film]
        /\ cr[r].prior = films[cr[r].film]
        /\ films[cr[r].film].totalRatings = 2
        /\ AggregateCorrectIn(films, ratings, cr[r].film)

\* C30: the averageRating stored on every film lies in 0..5 and its
\* totalRatings is a non-negative integer, after any sequence of rating
\* creations, updates and deletions.
AggregateInRange ==
    \A f \in DOMAIN films :
        /\ films[f].rating >= 0
        /\ films[f].rating <= 50
        /\ films[f].totalRatings \in Nat

(***************************************************************************)
(* Properties of the gates, checked under SpecGate.                        *)
(***************************************************************************)
\* the token of the request was not valid under the key when authenticate ran
PresentedInvalidToken ==
    /\ StartsWithBearer(gate.header)
    /\ gate.header[2] # EmptyString
    /\ ~(/\ Len(gate.header[2]) = 3
         /\ gate.header[2][3] = HS256(gate.header[2][2], gate.key)
         /\ NumericDate(gate.at) < gate.header[2][2].exp)

\* C32: authenticate answers an absent header, a header that is not a
\* Bearer header and an empty token with 401 whether or not the signing key
\* is configured, answers an invalid token with the 401 authentication
\* failure when the key is configured, and answers 500 only when the key is
\* missing.
AuthenticationFailuresAre401 ==
    gate.pc # "idle" =>
        /\ (gate.header = <<>> \/ ~StartsWithBearer(gate.header)) =>
               /\ gate.pc = "rejected"
               /\ gate.status = 401 /\ gate.message = MsgNoToken
        /\ (StartsWithBearer(gate.header) /\ gate.header[2] = EmptyString) =>
               /\ gate.pc = "rejected"
               /\ gate.status = 401 /\ gate.message = MsgTokenFormat
        /\ (PresentedInvalidToken /\ gate.key # "") =>
               /\ gate.pc = "rejected"
               /\ gate.status = 401 /\ gate.message = MsgAuthFailed
        /\ gate.status = 500 =>
               /\ gate.key = ""
               /\ gate.message = MsgAuthConfigMissing
        /\ (gate.key = "" /\ StartsWithBearer(gate.header)
               /\ gate.header[2] # EmptyString) => gate.status = 500

\* a request without a Bearer header was answered 401 by a process that has
\* no signing key
HeaderlessRefusedWithoutKey ==
    /\ gate.pc = "rejected"
    /\ ~StartsWithBearer(gate.header)
    /\ gate.key = ""
    /\ gate.status = 401

\* C36: for every request each of authenticate and isOwnAccount has exactly
\* one outcome: it calls next() once and sends nothing, or it sends one
\* response and does not call next(); isOwnAccount runs only after the
\* next() of authenticate.
GateOutcomeExactlyOne ==
    LET ranOwn == gate.sent.isOwnAccount + gate.next.isOwnAccount
    IN  /\ gate.pc = "idle" =>
               gate.sent.authenticate + gate.next.authenticate = 0
        /\ gate.pc # "idle" =>
               gate.sent.authenticate + gate.next.authenticate = 1
        /\ ranOwn \in {0, 1}
        /\ ranOwn = 1 <=>
               /\ gate.next.authenticate = 1
               /\ gate.pc # "authenticated"
        /\ gate.pc = "rejected" <=>
               gate.sent.authenticate + gate.sent.isOwnAccount = 1
        /\ gate.pc \in {"authorized", "handled"} <=> gate.next.isOwnAccount = 1
        /\ gate.status # 0 <=> gate.pc = "rejected"

\* authenticate called next() and isOwnAccount answered
PassedThenRefused ==
    /\ gate.pc = "rejected"
    /\ gate.next.authenticate = 1 /\ gate.sent.authenticate = 0
    /\ gate.sent.isOwnAccount = 1 /\ gate.next.isOwnAccount = 0

(***************************************************************************)
(* Properties of sessions across account changes, checked under SpecStale. *)
(***************************************************************************)
\* C33: the outcome of authenticate depends on the signature and the expiry
\* of the token only, whatever the persisted data: the request passes if and
\* only if its token is signed with the key and has not expired, also when
\* the password of its subject was reset or changed, or the subject deleted,
\* after the token was issued.
SessionValidityIgnoresPersistedData ==
    gate.pc # "idle" =>
        /\ gate.pc = "authenticated" <=>
               /\ StartsWithBearer(gate.header)
               /\ gate.header[2] # EmptyString
               /\ ~PresentedInvalidToken
        /\ gate.pc = "authenticated" =>
               gate.user = [userId |-> gate.header[2][2].userId,
                            email |-> gate.header[2][2].email]

\* a token issued under the first password passed authenticate after the
\* password of its subject had been replaced
SessionOutlivedPasswordChange ==
    /\ gate.pc = "authenticated"
    /\ gate.subjectChanged
    /\ gate.user.userId \in DOMAIN users

(***************************************************************************)
(* Properties of the ledger, checked under SpecForgot and SpecReset.       *)
(***************************************************************************)
\* the step leaves entry i of the ledger as it is, or it is the marking of
\* entry i by a request that presented it
KeptOrConsumed(i) ==
    /\ Len(resetTokens') >= i
    /\ \/ resetTokens'[i] = resetTokens[i]
       \/ /\ resetTokens'[i] = [resetTokens[i] EXCEPT !.used = TRUE]
          /\ \E r \in ResetRequests :
                 /\ rp[r].pc = "saveToken" /\ rp[r].doc = i
                 /\ rp'[r].pc = "done"

\* C31: once requestPasswordReset has found the user, an unused ledger
\* entry expiring one hour later is added whether the delivery then succeeds
\* or fails, and no later step removes an entry or changes it otherwise than
\* by marking it used when it is consumed.
LedgerEntryOutlivesDelivery ==
    [][/\ (forgot' # forgot /\ forgot'.delivery \in {"ok", "sendFails"}) =>
              Len(resetTokens') = Len(resetTokens) + 1
       /\ Len(resetTokens') > Len(resetTokens) =>
              /\ forgot'.registered
              /\ resetTokens' =
                     Append(resetTokens,
                            [userId |-> UserByEmail(forgot'.email),
                             token |-> resetTokens'[Len(resetTokens')].token,
                             expiresAt |-> now + ResetTokenTTL,
                             used |-> FALSE])
       /\ \A i \in 1..Len(resetTokens) : KeptOrConsumed(i)]_vars

\* the token of a request whose delivery failed has been consumed
UndeliveredTokenConsumed ==
    /\ forgot.delivery = "sendFails"
    /\ Len(resetTokens) = 1
    /\ \E r \in ResetRequests : Succeeded(r) /\ rp[r].doc = 1

\* C34: a successful resetPassword writes the password of the token's owner
\* and the used flag of the entry it presented, and nothing else: every
\* other entry, of the same user too, stays as it is; requestPasswordReset
\* adds an entry and leaves the earlier ones as they are.
ResetTouchesOwnTokenOnly ==
    [][/\ \A r \in ResetRequests :
              (rp[r].pc = "saveUser" /\ rp'[r].pc = "saveToken") =>
                  /\ resetTokens' = resetTokens
                  /\ DOMAIN users' = DOMAIN users
                  /\ \A u \in DOMAIN users :
                         IF u = resetTokens[rp[r].doc].userId
                         THEN /\ users'[u].email = users[u].email
                              /\ users'[u].firstName = users[u].firstName
                         ELSE users'[u] = users[u]
       /\ \A r \in ResetRequests :
              (rp[r].pc = "saveToken" /\ rp'[r].pc = "done"
                  /\ rp'[r].response.status = 200) =>
                  /\ users' = users
                  /\ resetTokens' =
                         [resetTokens EXCEPT ![rp[r].doc].used = TRUE]
       /\ Len(resetTokens') > Len(resetTokens) =>
              /\ SubSeq(resetTokens', 1, Len(resetTokens)) = resetTokens
              /\ users' = users]_vars

\* two tokens of one user: a reset with one of them succeeded, and a reset
\* with the other one saved its password afterwards and succeeded
OtherTokenConsumedLater ==
    \E q, r \in ResetRequests :
        /\ Succeeded(q) /\ Succeeded(r)
        /\ rp[q].doc # rp[r].doc
        /\ resetTokens[rp[q].doc].userId = resetTokens[rp[r].doc].userId
        /\ ~rp[q].current /\ rp[r].current

(***************************************************************************)
(* Properties of the rating route, checked under SpecRatingRoute.          *)
(***************************************************************************)
\* the token was signed with the key of the deployment and had not expired
\* at the time at
ValidAt(token, at) ==
    /\ Len(token) = 3
    /\ token[3] = HS256(token[2], JWT_SECRET)
    /\ NumericDate(at) < token[2].exp

\* C35: createRating is entered only by a request whose session token
\* passed authenticate, and every rating it creates has as its user the
\* subject of the token its request presented, whatever else the request
\* carried.
RatingAttributedToTokenSubject ==
    /\ \A r \in CreateRequests :
           cr[r].pc # "idle" => ValidAt(cr[r].bearer.token, cr[r].bearer.at)
    /\ \A d \in ratings :
           /\ ValidAt(cr[d.id].bearer.token, cr[d.id].bearer.at)
           /\ d.user = cr[d.id].bearer.token[2].userId

\* two requests, presenting the tokens of u1 and of u2, have both created
\* their rating and answered 201
BothSubjectsRated ==
    /\ \E d \in ratings : d.user = "u1"
    /\ \E d \in ratings : d.user = "u2"
    /\ \A r \in CreateRequests :
           cr[r].pc = "done" /\ cr[r].response.status = 201

====
